---- MODULE Spec2Model ----
(***************************************************************************)
(* Model of the metadata_reader package: the four storage connectors       *)
(* (S3, Azure, Databricks, SharePoint), the FileMetadata record and the    *)
(* aggregation drivers.  The storage backends are the environment: a       *)
(* namespace of files and directories, the tags / ACLs / metadata attached *)
(* to it, and the set of backend calls that fail.  Each connector method   *)
(* is an operator computed the way the Python code computes it; an action  *)
(* applies one whole method call.                                          *)
(***************************************************************************)
EXTENDS Integers, Sequences, FiniteSets, TLC

----------------------------------------------------------------------------
\* Bounds of the model.

\* nodes (files and directories) below the scanned root
MaxNodes == 3
\* children returned per page of a listing
PageSize == 1
\* latest page at which a listing is made to fail
MaxFailPage == 2

\* tags, ACL owners and metadata entries attached to the namespace
MaxAttrs == 4
\* reads (tags, ACL, account properties) the backend refuses at once
MaxReadFail == 1

\* child names, in the order a backend lists them
Names == <<"a", "b">>
\* the root (bucket, container, volume, drive) scanned by a call on an explicit root
Root == "r1"
\* file sizes reported by a backend
Sizes == {1, 2}

\* Python's None
None == "None"

----------------------------------------------------------------------------
\* State.

VARIABLES
    fs,        \* namespace: path |-> node; a path is <<root, name, ..., name>>
    failAt,    \* directory path |-> [page, mode]: the page at which listing it fails
    env,       \* accounts / sites with their roots, and the backend reads that fail
    conn,      \* the connector objects: conn.s3, conn.az, conn.dbx, conn.sp
    pc,        \* position of the caller: "setup", then "done" after a call
    call,      \* the call made: [conn, op, prefix, recursive]
    results,   \* list returned by the call
    diags,     \* diagnostic messages printed during the call
    raised,    \* TRUE when the call raised an exception to its caller
    prev,      \* outcome of the same call made earlier, before a read was made to fail
    drv,       \* the aggregation driver: configuration, accumulated list, positions
    output     \* the dictionaries to_dict produced (the JSON a driver prints)

vars == <<fs, failAt, env, conn, pc, call, results, diags, raised, prev, drv, output>>

----------------------------------------------------------------------------
\* Sequence helpers.

RECURSIVE SumSeq(_)
SumSeq(s) == IF s = <<>> THEN 0 ELSE Head(s) + SumSeq(Tail(s))

Min(a, b) == IF a < b THEN a ELSE b

IsPrefix(p, q) == Len(p) <= Len(q) /\ SubSeq(q, 1, Len(p)) = p


\* Python dicts are functions; {} is the empty function.
EmptyMap == <<>>

\* dict.get(k): the value, or None when the key is absent
Get(m, k) == IF k \in DOMAIN m THEN m[k] ELSE None

\* Python's "a or b" on optional strings: None and "" are falsy
Or(a, b) == IF a # None /\ a # "" THEN a ELSE b

\* d.update(e): the entries of e overwrite those of d
Update(d, e) == e @@ d

----------------------------------------------------------------------------
\* The backend namespace and its listing calls.

\* a node as the backend stores it
Node(kind, size) ==
    [kind |-> kind, size |-> size, mtime |-> "T1", etag |-> None,
     owner |-> None,     \* S3 Owner.DisplayName, SharePoint createdBy, volume owner
     ownerId |-> None,   \* S3 Owner.ID
     acl |-> None,       \* owner of the POSIX ACL (Azure Data Lake)
     tags |-> <<>>,      \* tag set: a list of [Key, Value]
     meta |-> EmptyMap]  \* user metadata (Azure blob, directory, container)

IsDir(p) == p \in DOMAIN fs /\ fs[p].kind \in {"dir", "root"}
IsFile(p) == p \in DOMAIN fs /\ fs[p].kind = "file"

\* immediate children of a directory, in listing order
Kids(p) ==
    LET all == [i \in 1..Len(Names) |-> Append(p, Names[i])]
    IN  SelectSeq(all, LAMBDA q : q \in DOMAIN fs)

\* every file below a directory, in key order: a listing by key prefix
\* without delimiter (S3 list_objects_v2 Prefix=..., Azure list_blobs)
RECURSIVE FlatFrom(_, _)
FlatFrom(p, i) ==
    IF i > Len(Names) THEN <<>>
    ELSE LET q == Append(p, Names[i])
             here == IF IsFile(q) THEN <<q>>
                     ELSE IF IsDir(q) THEN FlatFrom(q, 1)
                     ELSE <<>>
         IN  here \o FlatFrom(p, i + 1)

Flat(p) == FlatFrom(p, 1)

\* number of pages a listing of n entries is split into (an empty listing is
\* one empty page)
NumPages(n) == IF n = 0 THEN 1 ELSE (n + PageSize - 1) \div PageSize

\* TRUE when the listing of directory d, n entries long, fails on some page
ListingFails(d, n) ==
    d \in DOMAIN failAt /\ failAt[d].page <= NumPages(n)

\* Iterating the listing `entries` of directory d page by page: the entries
\* of the pages fetched before the failing page, whether every page was
\* fetched, and how the failure shows (an HTTP error status or an exception).
Listing(entries, d) ==
    IF ListingFails(d, Len(entries))
    THEN [items |-> SubSeq(entries, 1,
                           Min(Len(entries), (failAt[d].page - 1) * PageSize)),
          ok |-> FALSE, mode |-> failAt[d].mode]
    ELSE [items |-> entries, ok |-> TRUE, mode |-> "none"]

\* the first page only of a listing: one request without continuation
FirstPage(entries, d) ==
    IF ListingFails(d, Len(entries)) /\ failAt[d].page = 1
    THEN [items |-> <<>>, ok |-> FALSE, mode |-> failAt[d].mode]
    ELSE [items |-> SubSeq(entries, 1, Min(Len(entries), PageSize)),
          ok |-> TRUE, mode |-> "none"]


----------------------------------------------------------------------------
\* Records and messages.

FileMetadata(path, type, size_bytes, last_modified, source, owner, last_accessed, content_type, etag, tags, extra_metadata) ==
    [path |-> path, type |-> type, size_bytes |-> size_bytes,
     last_modified |-> last_modified, source |-> source, owner |-> owner,
     last_accessed |-> last_accessed, content_type |-> content_type,
     etag |-> etag, tags |-> tags, extra_metadata |-> extra_metadata]

\* the keys to_dict always writes, and those whose field is not Optional
FixedKeys ==
    {"path", "type", "size_bytes", "last_modified", "source", "owner",
     "last_accessed", "content_type", "etag", "tag"}
RequiredKeys == {"path", "type", "size_bytes", "source", "tag"}

\* datetimes (T1 with a time zone, T2 without) and datetime.isoformat()
Datetimes == {"T1", "T2"}
Isoformat(t) ==
    CASE t = "T1" -> "2025-01-10T12:30:00+00:00"
      [] t = "T2" -> "2025-01-15T09:10:00"

\* FileMetadata.to_dict: the fixed keys (tags under "tag", datetimes in ISO
\* format), overwritten by the entries of extra_metadata, without the keys
\* whose value is None
to_dict(rec) ==
    LET base_dict ==
            [k \in FixedKeys |->
                CASE k = "path" -> rec.path
                  [] k = "type" -> rec.type
                  [] k = "size_bytes" -> rec.size_bytes
                  [] k = "last_modified" ->
                        IF rec.last_modified # None THEN Isoformat(rec.last_modified)
                        ELSE None
                  [] k = "source" -> rec.source
                  [] k = "owner" -> rec.owner
                  [] k = "last_accessed" ->
                        IF rec.last_accessed # None THEN Isoformat(rec.last_accessed)
                        ELSE None
                  [] k = "content_type" -> rec.content_type
                  [] k = "etag" -> rec.etag
                  [] k = "tag" -> rec.tags]
        extra == rec.extra_metadata
        merged == IF extra # EmptyMap THEN Update(base_dict, extra) ELSE base_dict
        isNone(k) == IF k \in DOMAIN extra THEN extra[k] = None
                     ELSE k \notin RequiredKeys /\ base_dict[k] = None
    IN  [k \in {x \in DOMAIN merged : ~isNone(x)} |-> merged[k]]

\* the path string "<scheme>://<root>/<key>", with a trailing "/" when slash
PathStr(scheme, root, key, slash) ==
    [scheme |-> scheme, root |-> root, key |-> key, slash |-> slash]

\* a message printed on stdout or stderr
Msg(chan, what, about) == [chan |-> chan, what |-> what, about |-> about]

\* what a call gives back: the returned list, the messages printed, whether
\* it raised instead of returning, and the connector object after the call
Returned(recs, ds) == [recs |-> recs, diags |-> ds, exc |-> FALSE]
Raised(ds) == [recs |-> <<>>, diags |-> ds, exc |-> TRUE]

\* concatenation of a sequence of sequences
RECURSIVE Concat(_)
Concat(ss) == IF ss = <<>> THEN <<>> ELSE Head(ss) \o Concat(Tail(ss))

----------------------------------------------------------------------------
\* S3Connector.

\* {t["Key"].strip(): t["Value"] for t in TagSet}: a later entry overwrites
StripKey(k) == IF k = " owner " THEN "owner" ELSE k

RECURSIVE TagSetToDict(_)
TagSetToDict(ts) ==
    IF ts = <<>> THEN EmptyMap
    ELSE LET t == ts[Len(ts)]
         IN  (StripKey(t.Key) :> t.Value) @@ TagSetToDict(SubSeq(ts, 1, Len(ts) - 1))

\* get_bucket_tagging inside try/except: {} when the read fails
S3BucketTags(bucket) ==
    IF "bucket_tagging" \in env.fails THEN EmptyMap
    ELSE TagSetToDict(fs[<<bucket>>].tags)

\* _calculate_folder_size: the paginator walks every page of the keys under
\* the prefix; nothing catches a failing page
S3FolderSize(d) ==
    LET l == Listing(Flat(d), d)
    IN  [size |-> SumSeq([i \in 1..Len(l.items) |-> fs[l.items[i]].size]),
         exc |-> ~l.ok]

\* the file record of one entry of Contents
S3FileRecord(q, bucket_tags, fetchOwner) ==
    LET listed == IF fetchOwner /\ fs[q].ownerId # None
                  THEN Or(fs[q].owner, fs[q].ownerId)
                  ELSE None
        owner_display == IF listed \in {None, ""} /\ "owner" \in DOMAIN bucket_tags
                         THEN bucket_tags["owner"] ELSE listed
    IN  FileMetadata(PathStr("s3", q[1], Tail(q), FALSE), "file", fs[q].size,
                     fs[q].mtime, "s3", owner_display, None, None,
                     fs[q].etag, bucket_tags, EmptyMap)

\* list_objects with a bucket: one list_objects_v2 request with Delimiter "/"
\* (retried without FetchOwner when the first raises), file records for
\* Contents, then directory records for CommonPrefixes
S3ListBucket(bucket, prefix) ==
    LET d == <<bucket>> \o prefix
        bucket_tags == S3BucketTags(bucket)
        fetchOwner == "fetch_owner" \notin env.fails
        response == FirstPage(Kids(d), d)
        contents == SelectSeq(response.items, IsFile)
        prefixes == SelectSeq(response.items, IsDir)
        sizes == [i \in 1..Len(prefixes) |-> S3FolderSize(prefixes[i])]
        files == [i \in 1..Len(contents) |->
                     S3FileRecord(contents[i], bucket_tags, fetchOwner)]
        dirs == [i \in 1..Len(prefixes) |->
                    FileMetadata(PathStr("s3", bucket, Tail(prefixes[i]), TRUE),
                                 "directory", sizes[i].size, None, "s3", None,
                                 None, None, None, bucket_tags, EmptyMap)]
    IN  IF ~response.ok \/ (\E i \in 1..Len(prefixes) : sizes[i].exc)
        THEN Raised(<<>>)
        ELSE Returned(files \o dirs, <<>>)


\* get_metadata: head_object (not guarded), the bucket tags overwritten by
\* the object's tags, and the owner of the object's ACL
S3GetMetadata(c, q) ==
    LET bucket_tags == S3BucketTags(c.bucket)
        tags == IF "obj_tagging" \in env.fails THEN bucket_tags
                ELSE Update(bucket_tags, TagSetToDict(fs[q].tags))
        owner_display == IF "obj_acl" \in env.fails THEN None
                         ELSE Or(fs[q].owner, fs[q].ownerId)
    IN  IF ~IsFile(q) \/ q[1] # c.bucket THEN Raised(<<>>)
        ELSE Returned(<<FileMetadata(PathStr("s3", q[1], Tail(q), FALSE), "file",
                                     fs[q].size, fs[q].mtime, "s3", owner_display,
                                     None, None, fs[q].etag, tags,
                                     [storage_class |-> None, version_id |-> None,
                                      metadata |-> fs[q].meta])>>,
                      <<>>)

----------------------------------------------------------------------------
\* DatabricksConnector.

\* a folder size that leaves out the files of subdirectories
DbxFolderSizeOneLevel(p) ==
    LET l == Listing(Kids(p), p)
    IN  SumSeq([i \in 1..Len(l.items) |->
                  IF IsDir(l.items[i]) THEN 0 ELSE fs[l.items[i]].size])

\* _calculate_folder_size: recursive sum over list_directory_contents; an
\* exception ends the loop of the directory it occurs in and the sum
\* collected so far is returned
RECURSIVE DbxFolderSize(_)
DbxFolderSize(p) ==
    LET l == Listing(Kids(p), p)
    IN  SumSeq([i \in 1..Len(l.items) |->
                  IF IsDir(l.items[i]) THEN DbxFolderSize(l.items[i])
                  ELSE fs[l.items[i]].size])

\* the path of a volume entry built from the entry's name instead of its path
DbxPathFromName(q) ==
    PathStr("/Volumes", q[1], IF Len(q) > 1 THEN <<q[Len(q)]>> ELSE <<>>, FALSE)

\* the path string of a volume entry: /Volumes/<catalog>/<schema>/<volume>/...
DbxPath(q) == PathStr("/Volumes", q[1], Tail(q), FALSE)

\* mod_time of a volume entry: None when the entry has neither a
\* modification_time nor a last_modified attribute ("absent"), else the
\* datetime of the attribute's value
DbxModTime(q) == IF fs[q].mtime = "absent" THEN None ELSE fs[q].mtime

\* _fetch_volume_files: one record per entry, directories followed by their
\* contents when recursive; any exception inside the loop (a failing page,
\* a timestamp attribute whose value is None) ends the loop of this
\* directory and is printed
RECURSIVE DbxFetch(_, _, _)
DbxFetch(p, owner, recursive) ==
    LET l == Listing(Kids(p), p)
        RECURSIVE Walk(_)
        Walk(i) ==
            IF i > Len(l.items) THEN [recs |-> <<>>, diags |-> <<>>, err |-> FALSE]
            ELSE LET item == l.items[i]
                 IN  IF fs[item].mtime = None
                     THEN [recs |-> <<>>, diags |-> <<>>, err |-> TRUE]
                     ELSE
                     LET rec == IF IsDir(item)
                                THEN FileMetadata(DbxPath(item), "directory",
                                         DbxFolderSize(item), DbxModTime(item),
                                         "databricks_volume", owner, None, None,
                                         None, EmptyMap, EmptyMap)
                                ELSE FileMetadata(DbxPath(item), "file",
                                         fs[item].size, DbxModTime(item),
                                         "databricks_volume", owner, None, None,
                                         None, EmptyMap, EmptyMap)
                         sub == IF IsDir(item) /\ recursive
                                THEN DbxFetch(item, owner, TRUE)
                                ELSE [recs |-> <<>>, diags |-> <<>>]
                         rest == Walk(i + 1)
                     IN  [recs |-> <<rec>> \o sub.recs \o rest.recs,
                          diags |-> sub.diags \o rest.diags,
                          err |-> rest.err]
        w == Walk(1)
    IN  [recs |-> w.recs,
         diags |-> w.diags \o
                   (IF w.err \/ ~l.ok
                    THEN <<Msg("stdout", "Error scanning directory", p)>>
                    ELSE <<>>)]

\* the owner field after "if not self.owner: ... self.owner = vol_info.owner"
DbxOwnerAfter(x, volume) ==
    IF x.owner \notin {None, ""} THEN x.owner
    ELSE IF "volume_read" \in env.fails THEN x.owner
    ELSE fs[<<volume>>].owner

\* DbxListVolume without the recursive flag handed to _fetch_volume_files,
\* whose own default is to recurse
DbxListVolumeDefaultDepth(x, volume, prefix, recursive) ==
    LET owner == DbxOwnerAfter(x, volume)
        search_path == <<volume>> \o prefix
        rootRec == IF prefix = <<>>
                   THEN <<FileMetadata(DbxPath(search_path), "directory",
                              DbxFolderSize(search_path), None,
                              "databricks_volume", owner, None, None, None,
                              EmptyMap, EmptyMap)>>
                   ELSE <<>>
        f == DbxFetch(search_path, owner, TRUE)
    IN  Returned(rootRec \o f.recs, f.diags)

\* list_objects on a volume: the volume itself as a directory record when
\* the prefix is empty, then the records of _fetch_volume_files
DbxListVolume(x, volume, prefix, recursive) ==
    LET owner == DbxOwnerAfter(x, volume)
        warn == IF x.owner \in {None, ""} /\ "volume_read" \in env.fails
                THEN <<Msg("stdout", "Warning: Could not fetch owner", <<volume>>)>>
                ELSE <<>>
        search_path == <<volume>> \o prefix
        rootRec == IF prefix = <<>>
                   THEN <<FileMetadata(DbxPath(search_path), "directory",
                              DbxFolderSize(search_path), None,
                              "databricks_volume", owner, None, None, None,
                              EmptyMap, EmptyMap)>>
                   ELSE <<>>
        f == DbxFetch(search_path, owner, recursive)
    IN  Returned(rootRec \o f.recs, warn \o f.diags)

----------------------------------------------------------------------------
\* SharePointConnector.

\* the drives of a site, as GET /sites/<id>/drives returns them
SpDrives(site) ==
    Concat([i \in 1..Len(env.groups) |->
              IF env.groups[i].name = site THEN env.groups[i].members ELSE <<>>])

\* _calculate_folder_size: pages of the folder's children until there is no
\* nextLink; an error status or an exception ends the loop with the sum
\* collected so far
RECURSIVE SpFolderSize(_)
SpFolderSize(p) ==
    LET l == Listing(Kids(p), p)
    IN  SumSeq([i \in 1..Len(l.items) |->
                  IF IsFile(l.items[i]) THEN fs[l.items[i]].size
                  ELSE SpFolderSize(l.items[i])])

\* _map_item_to_metadata: the path is built from the item's name alone
SpMapItem(q, site, size) ==
    FileMetadata(PathStr("sharepoint", <<site, q[1]>>, <<q[Len(q)]>>, FALSE),
                 IF IsDir(q) THEN "directory" ELSE "file", size, fs[q].mtime,
                 "sharepoint", fs[q].owner, None, None, fs[q].etag,
                 EmptyMap, EmptyMap)

\* _fetch_children on the root of a drive: pages until there is no nextLink;
\* an error status ends the loop silently, an exception of the request
\* leaves the method; folders are sized but not entered
SpFetchChildren(site, drive) ==
    LET l == IF \E i \in 1..Len(SpDrives(site)) : SpDrives(site)[i] = drive
             THEN Listing(Kids(<<drive>>), <<drive>>)
             ELSE [items |-> <<>>, ok |-> FALSE, mode |-> "status"]
        recs == [i \in 1..Len(l.items) |->
                    IF IsFile(l.items[i])
                    THEN SpMapItem(l.items[i], site, fs[l.items[i]].size)
                    ELSE SpMapItem(l.items[i], site, SpFolderSize(l.items[i]))]
    IN  IF ~l.ok /\ l.mode = "exception" THEN Raised(<<>>)
        ELSE Returned(recs, <<>>)


----------------------------------------------------------------------------
\* AzureConnector.

\* an SDK tag dict from the stored tag set (keys are not trimmed)
RECURSIVE TagsAsDict(_)
TagsAsDict(ts) ==
    IF ts = <<>> THEN EmptyMap
    ELSE (ts[Len(ts)].Key :> ts[Len(ts)].Value)
         @@ TagsAsDict(SubSeq(ts, 1, Len(ts) - 1))

\* the storage account a data-plane client addresses after
\* _init_data_clients(account_name): the connection string's, else the named one
AzClientFor(a, account_name) ==
    IF a.connstr # None THEN a.connstr
    ELSE IF account_name \notin {None, ""} THEN account_name
    ELSE None

\* TRUE when the account the client addresses has the container
AzHasContainer(client, container) ==
    \E i \in 1..Len(env.groups) :
        /\ env.groups[i].name = client
        /\ \E j \in 1..Len(env.groups[i].members) :
               env.groups[i].members[j] = container

\* get_account_metadata: the cached dict when there is one; else the data
\* plane account information, the configured account tags and, with a
\* management client, resource group and account name, the tags and
\* properties of the management plane (configured tags win); then cached
AzAccountMetadata(a) ==
    IF a.cache # <<>> THEN [meta |-> a.cache[1], diags |-> <<>>]
    ELSE
    LET infoFails == a.client = None \/ "acct_info" \in env.fails
        cfgTags == a.cfgTags
        useMgmt == a.mgmt /\ a.rg \notin {None, ""}
                          /\ a.account_name \notin {None, ""}
        found == SelectSeq(env.groups,
                           LAMBDA g : g.name = a.account_name /\ g.rg = a.rg)
        mgmtOk == useMgmt /\ found # <<>> /\ "acct_props" \notin env.fails
        tags == IF mgmtOk /\ found[1].tags # EmptyMap
                THEN Update(found[1].tags, cfgTags)
                ELSE cfgTags
        mgmt_props == IF mgmtOk THEN ("location" :> found[1].location)
                      ELSE EmptyMap
    IN  [meta |-> [sku_name |-> IF infoFails THEN None ELSE "Standard_LRS",
                   tags |-> tags, management_properties |-> mgmt_props,
                   source |-> "azure"],
         diags |-> (IF infoFails
                    THEN <<Msg("stdout", "Warning: Data Plane access failed", a.client)>>
                    ELSE <<>>) \o
                   (IF useMgmt /\ ~mgmtOk
                    THEN <<Msg("stdout", "Warning: Failed to fetch account tags/props",
                               a.account_name)>>
                    ELSE <<>>)]

\* _calculate_folder_size: list_blobs(name_starts_with=prefix) inside
\* try/except: the sum of the blobs listed before a failure
AzFolderSize(d) ==
    LET l == Listing(Flat(d), d)
    IN  SumSeq([i \in 1..Len(l.items) |-> fs[l.items[i]].size])

\* AzFileRecord with the source string of the discovery record
AzFileRecordSourceAzure(a, q, account_tags, include) ==
    LET blob_metadata == IF include THEN fs[q].meta ELSE EmptyMap
        blob_tags == IF include THEN TagsAsDict(fs[q].tags) ELSE EmptyMap
        final_tags == Update(account_tags, blob_tags)
        tagged == Or(Get(blob_tags, "owner"), Or(Get(blob_tags, "Owner"),
                  Or(Get(blob_metadata, "owner"), Or(Get(blob_metadata, "Owner"),
                  Or(Get(account_tags, "owner"), Get(account_tags, "Owner"))))))
        owner == IF a.client # None /\ "blob_acl" \notin env.fails
                 THEN Or(fs[q].acl, tagged)
                 ELSE tagged
    IN  FileMetadata(PathStr("azure", q[1], Tail(q), FALSE), "file", fs[q].size,
                     fs[q].mtime, "azure", owner, None, None, fs[q].etag,
                     final_tags, EmptyMap)

\* the record of a blob (an entry with a size) in list_objects
AzFileRecord(a, q, account_tags, include) ==
    LET blob_metadata == IF include THEN fs[q].meta ELSE EmptyMap
        blob_tags == IF include THEN TagsAsDict(fs[q].tags) ELSE EmptyMap
        final_tags == Update(account_tags, blob_tags)
        tagged == Or(Get(blob_tags, "owner"), Or(Get(blob_tags, "Owner"),
                  Or(Get(blob_metadata, "owner"), Or(Get(blob_metadata, "Owner"),
                  Or(Get(account_tags, "owner"), Get(account_tags, "Owner"))))))
        owner == IF a.client # None /\ "blob_acl" \notin env.fails
                 THEN Or(fs[q].acl, tagged)
                 ELSE tagged
    IN  FileMetadata(PathStr("azure", q[1], Tail(q), FALSE), "file", fs[q].size,
                     fs[q].mtime, "blob_storage", owner, None, None, fs[q].etag,
                     final_tags, EmptyMap)

\* AzDirRecord with the folder size computed inside the try block that
\* reads the directory's properties
AzDirRecordSizeInTry(a, q, account_tags) ==
    LET hasProps == a.client # None /\ "dir_props" \notin env.fails
        folder_size == IF hasProps THEN AzFolderSize(q) ELSE 0
        folder_modified == IF hasProps THEN fs[q].mtime ELSE None
        folder_metadata == IF hasProps THEN fs[q].meta ELSE EmptyMap
        folder_owner == IF hasProps /\ "dir_acl" \notin env.fails
                        THEN fs[q].acl ELSE None
        folder_tags == IF hasProps /\ "dir_tags" \notin env.fails
                       THEN Update(account_tags, TagsAsDict(fs[q].tags))
                       ELSE account_tags
    IN  FileMetadata(PathStr("azure", q[1], Tail(q), TRUE), "directory",
                     folder_size, folder_modified, "blob_storage",
                     Or(folder_owner, Or(Get(folder_metadata, "owner"),
                                         Get(folder_metadata, "Owner"))),
                     None, None, None, folder_tags, EmptyMap)

\* the record of a BlobPrefix (an entry without a size) in list_objects
AzDirRecord(a, q, account_tags) ==
    LET folder_size == AzFolderSize(q)
        hasProps == a.client # None /\ "dir_props" \notin env.fails
        folder_modified == IF hasProps THEN fs[q].mtime ELSE None
        folder_metadata == IF hasProps THEN fs[q].meta ELSE EmptyMap
        folder_owner == IF hasProps /\ "dir_acl" \notin env.fails
                        THEN fs[q].acl ELSE None
        folder_tags == IF hasProps /\ "dir_tags" \notin env.fails
                       THEN Update(account_tags, TagsAsDict(fs[q].tags))
                       ELSE account_tags
    IN  FileMetadata(PathStr("azure", q[1], Tail(q), TRUE), "directory",
                     folder_size, folder_modified, "blob_storage",
                     Or(folder_owner, Or(Get(folder_metadata, "owner"),
                                         Get(folder_metadata, "Owner"))),
                     None, None, None, folder_tags, EmptyMap)

\* list_objects with a container: the account context, then one record per
\* entry of walk_blobs.  walk_blobs lists by the delimiter "/" whether or
\* not the code passes it (the SDK's default), so one level is listed; a
\* failing page raises out of the loop.  The metadata cache is part of the
\* outcome.
AzListContainer(a, container, prefix, recursive) ==
    LET d == <<container>> \o prefix
        am == AzAccountMetadata(a)
        account_tags == am.meta.tags
        include == "walk_include" \notin env.fails
        l == Listing(Kids(d), d)
        recs == [i \in 1..Len(l.items) |->
                    IF IsFile(l.items[i])
                    THEN AzFileRecord(a, l.items[i], account_tags, include)
                    ELSE AzDirRecord(a, l.items[i], account_tags)]
    IN  IF a.client = None
        THEN Raised(<<>>) @@ [cache |-> a.cache]
        ELSE IF ~AzHasContainer(a.client, container) \/ ~l.ok
        THEN Raised(am.diags) @@ [cache |-> <<am.meta>>]
        ELSE Returned(recs, am.diags) @@ [cache |-> <<am.meta>>]


\* get_metadata: the blob's properties (not guarded); no ACL is read; the
\* owner from the blob's tags, else the container's metadata, else the
\* account's tags; the record's tags are the account's tags
AzGetMetadata(a, q) ==
    LET tags == IF "blob_tags" \in env.fails THEN EmptyMap
                ELSE TagsAsDict(fs[q].tags)
        owner1 == None
        owner2 == IF owner1 \in {None, "", "$superuser"}
                  THEN Or(Get(tags, "owner"), Or(Get(tags, "Owner"), owner1))
                  ELSE owner1
        meta == IF "cont_props" \in env.fails THEN EmptyMap
                ELSE fs[<<a.container>>].meta
        owner3 == IF owner2 \in {None, "", "$superuser"}
                  THEN Or(Get(meta, "owner"), Or(Get(meta, "Owner"), owner2))
                  ELSE owner2
        am == AzAccountMetadata(a)
        account_tags == am.meta.tags
        account_props == am.meta.management_properties
        owner == IF owner3 \in {None, "", "$superuser"}
                 THEN Or(Get(account_tags, "owner"),
                         Or(Get(account_tags, "Owner"), owner3))
                 ELSE owner3
        final_extra_metadata == Update(account_props, fs[q].meta)
    IN  IF a.client = None \/ a.container \in {None, ""}
        THEN Raised(<<>>) @@ [cache |-> a.cache]
        ELSE IF ~AzHasContainer(a.client, a.container) \/ ~IsFile(q)
                \/ q[1] # a.container
        THEN Raised(<<>>) @@ [cache |-> a.cache]
        ELSE Returned(<<FileMetadata(PathStr("azure", q[1], Tail(q), FALSE), "file",
                                     fs[q].size, fs[q].mtime, "blob_storage", owner,
                                     None, None, fs[q].etag, account_tags,
                                     final_extra_metadata)>>,
                      am.diags) @@ [cache |-> <<am.meta>>]

----------------------------------------------------------------------------
\* Discovery and the public list_objects of each connector.

\* the members of every account / site, in enumeration order
AllRoots == Concat([i \in 1..Len(env.groups) |-> env.groups[i].members])

\* S3Connector.list_buckets: [] and a message when the call fails
S3ListBuckets ==
    IF "list_buckets" \in env.fails
    THEN [items |-> <<>>, diags |-> <<Msg("stdout", "Error listing S3 buckets", None)>>]
    ELSE [items |-> AllRoots, diags |-> <<>>]

\* S3ScanBuckets with the try/except around the loop instead of inside it:
\* the first failing bucket ends the scan
RECURSIVE S3ScanBucketsStopAtError(_, _)
S3ScanBucketsStopAtError(buckets, prefix) ==
    IF buckets = <<>> THEN [recs |-> <<>>, diags |-> <<>>]
    ELSE LET r == S3ListBucket(Head(buckets), prefix)
             rest == S3ScanBucketsStopAtError(Tail(buckets), prefix)
         IN  IF r.exc
             THEN [recs |-> <<>>,
                   diags |-> r.diags
                             \o <<Msg("stderr", "Error scanning bucket", Head(buckets))>>]
             ELSE [recs |-> r.recs \o rest.recs, diags |-> r.diags \o rest.diags]

\* the loop of discovery mode: every bucket in its own try/except
RECURSIVE S3ScanBuckets(_, _)
S3ScanBuckets(buckets, prefix) ==
    IF buckets = <<>> THEN [recs |-> <<>>, diags |-> <<>>]
    ELSE LET r == S3ListBucket(Head(buckets), prefix)
             rest == S3ScanBuckets(Tail(buckets), prefix)
         IN  IF r.exc
             THEN [recs |-> rest.recs,
                   diags |-> r.diags
                             \o <<Msg("stderr", "Error scanning bucket", Head(buckets))>>
                             \o rest.diags]
             ELSE [recs |-> r.recs \o rest.recs, diags |-> r.diags \o rest.diags]

\* S3Connector.list_objects(prefix, bucket)
S3ListObjects(c, prefix, bucket) ==
    LET target_bucket == Or(bucket, c.bucket)
    IN  IF target_bucket \in {None, ""}
        THEN LET found == S3ListBuckets
                 scan == S3ScanBuckets(found.items, prefix)
             IN  Returned(scan.recs, found.diags \o scan.diags)
        ELSE S3ListBucket(target_bucket, prefix)

\* prefix.startswith("dbfs:"): a prefix with that scheme is <<"dbfs:", name, ...>>
StartsWithDbfs(prefix) == prefix # <<>> /\ prefix[1] = "dbfs:"

\* _list_dbfs(prefix): one record per entry that dbfs.list gives for the
\* path (the entries of that directory, not those below them); the DBFS
\* root is the root of the namespace.  An exception of the listing is
\* printed and the records made so far are returned.
DbxListDbfs(prefix) ==
    LET path_to_list == IF StartsWithDbfs(prefix) THEN prefix ELSE <<"dbfs:">> \o prefix
        p == <<Root>> \o Tail(path_to_list)
        l == Listing(Kids(p), p)
        rec(q) == FileMetadata(PathStr("dbfs:", "", Tail(q), FALSE),
                      IF IsDir(q) THEN "directory" ELSE "file", fs[q].size,
                      fs[q].mtime, "databricks_dbfs", None, None, None, None,
                      EmptyMap, EmptyMap)
    IN  IF p \notin DOMAIN fs
        THEN Returned(<<>>, <<Msg("stdout", "Error listing Databricks DBFS path", p)>>)
        ELSE Returned([i \in 1..Len(l.items) |-> rec(l.items[i])],
                      IF l.ok THEN <<>>
                      ELSE <<Msg("stdout", "Error listing Databricks DBFS path", p)>>)

\* DatabricksConnector.list_objects(prefix, volume, recursive); the volume
\* stands for the triple catalog, schema, volume.  Without a volume a
\* dbfs: prefix is listed by _list_dbfs, and for any other prefix the call
\* raises ValueError.
DbxListObjects(x, prefix, volume, recursive) ==
    LET target_volume == Or(volume, x.volume)
    IN  IF target_volume \in {None, ""}
        THEN IF StartsWithDbfs(prefix)
             THEN DbxListDbfs(prefix) @@ [owner |-> x.owner]
             ELSE Raised(<<>>) @@ [owner |-> x.owner]
        ELSE DbxListVolume(x, target_volume, prefix, recursive)
             @@ [owner |-> DbxOwnerAfter(x, target_volume)]

\* the loop over the drives of one site
RECURSIVE SpScanDrives(_, _)
SpScanDrives(site, drives) ==
    IF drives = <<>> THEN Returned(<<>>, <<>>)
    ELSE LET r == SpFetchChildren(site, Head(drives))
             rest == SpScanDrives(site, Tail(drives))
         IN  IF r.exc \/ rest.exc THEN Raised(<<>>)
             ELSE Returned(r.recs \o rest.recs, <<>>)

\* list_objects on a site: the given drive, or every drive of the site
\* (raise_for_status raises when the drives cannot be listed)
SpListSite(site, drive_id) ==
    IF drive_id \notin {None, ""}
    THEN SpScanDrives(site, <<drive_id>>)
    ELSE IF "list_drives" \in env.fails
              \/ \A i \in 1..Len(env.groups) : env.groups[i].name # site
    THEN Raised(<<>>)
    ELSE SpScanDrives(site, SpDrives(site))

\* SharePointConnector.list_sites: pages of sites until there is no
\* nextLink; on a failure the sites of the pages read so far are returned
SpListSites ==
    LET l == Listing(env.groups, <<"sites">>)
    IN  [items |-> l.items,
         diags |-> IF l.ok THEN <<>>
                   ELSE <<Msg("stdout", "Error listing SharePoint sites", None)>>]

\* the loop of discovery mode: every site in its own try/except
RECURSIVE SpScanSites(_, _)
SpScanSites(sites, drive_id) ==
    IF sites = <<>> THEN [recs |-> <<>>, diags |-> <<>>]
    ELSE LET r == SpListSite(Head(sites).name, drive_id)
             rest == SpScanSites(Tail(sites), drive_id)
         IN  IF r.exc
             THEN [recs |-> rest.recs,
                   diags |-> <<Msg("stderr", "Error scanning site", Head(sites).name)>>
                             \o rest.diags]
             ELSE [recs |-> r.recs \o rest.recs, diags |-> rest.diags]

\* SharePointConnector.list_objects(prefix, site_id, drive_id): the prefix
\* is not used; the token is acquired before anything else
SpListObjects(c, site_id, drive_id) ==
    LET target_site_id == Or(site_id, c.site_id)
        target_drive_id == Or(drive_id, c.drive_id)
    IN  IF "token" \in env.fails THEN Raised(<<>>)
        ELSE IF target_site_id \in {None, ""}
        THEN LET found == SpListSites
                 scan == SpScanSites(found.items, target_drive_id)
             IN  Returned(scan.recs, found.diags \o scan.diags)
        ELSE SpListSite(target_site_id, target_drive_id)


\* AzureConnector.list_storage_accounts, called with a management client:
\* the accounts of the pages read before a failure, which is printed
AzListStorageAccounts ==
    LET l == Listing(env.groups, <<"accounts">>)
    IN  [items |-> l.items,
         diags |-> IF l.ok THEN <<>>
                   ELSE <<Msg("stdout", "Error listing storage accounts", None)>>]

\* AzureConnector.list_containers(account_name): through self.client, or a
\* temporary client when the name differs from the configured account
AzListContainers(a, account_name) ==
    LET client == IF account_name \notin {None, ""} /\ account_name # a.account_name
                  THEN account_name ELSE a.client
        members == SpDrives(client)
        l == IF \E i \in 1..Len(env.groups) : env.groups[i].name = client
             THEN Listing(members, <<"containers">>)
             ELSE [items |-> <<>>, ok |-> FALSE, mode |-> "exception"]
    IN  IF client = None THEN [items |-> <<>>, diags |-> <<>>]
        ELSE [items |-> l.items,
              diags |-> IF l.ok THEN <<>>
                        ELSE <<Msg("stdout", "Error listing containers", client)>>]

\* the inner loop of discovery: every container in its own try/except
RECURSIVE AzScanContainers(_, _, _, _)
AzScanContainers(a, containers, prefix, recursive) ==
    IF containers = <<>> THEN [recs |-> <<>>, diags |-> <<>>, cache |-> a.cache]
    ELSE LET r == AzListContainer(a, Head(containers), prefix, recursive)
             rest == AzScanContainers([a EXCEPT !.cache = r.cache],
                                      Tail(containers), prefix, recursive)
         IN  [recs |-> r.recs \o rest.recs,
              diags |-> r.diags
                        \o (IF r.exc
                            THEN <<Msg("stderr", "Error scanning container",
                                       Head(containers))>>
                            ELSE <<>>)
                        \o rest.diags,
              cache |-> rest.cache]

\* the account entry recorded as a directory
AzAccountRecordAsDirectory(acct) ==
    FileMetadata(PathStr("azure", acct.name, <<>>, FALSE), "directory", 0,
                 None, "azure",
                 Or(Get(acct.tags, "owner"), Get(acct.tags, "Owner")), None,
                 None, None, acct.tags,
                 ("location" :> acct.location) @@ ("resource_group" :> acct.rg))

\* the synthetic record of a discovered storage account
AzAccountRecord(acct) ==
    FileMetadata(PathStr("azure", acct.name, <<>>, FALSE), "storage_account", 0,
                 None, "azure",
                 Or(Get(acct.tags, "owner"), Get(acct.tags, "Owner")), None,
                 None, None, acct.tags,
                 ("location" :> acct.location) @@ ("resource_group" :> acct.rg))

\* the outer loop of discovery: switch the account context, list the
\* containers, emit the account record, scan the containers, restore the
\* context and clear the cache; an exception skips the rest of the body.
\* _init_data_clients raises for an account whose clients cannot be built,
\* when switching to it and when restoring it: the configured name is then
\* already assigned, the clients are left as they were and the cache is
\* not cleared.
RECURSIVE AzScanAccounts(_, _, _, _)

\* the end of one account's turn, its containers scanned: restore the
\* original account's clients and clear the per-account cache (both inside
\* the try block, so a failing restore leaves the switched clients and the
\* cache in place), then go on with the remaining accounts
AzAccountScanned(a, switched, found, scan, accounts, prefix, recursive) ==
    LET acct == Head(accounts)
        original_acct == a.account_name
        restoreRaises == /\ a.connstr = None
                         /\ \E i \in 1..Len(env.groups) :
                               env.groups[i].name = original_acct /\ env.groups[i].bad
        restored == IF restoreRaises
                    THEN [switched EXCEPT !.account_name = original_acct,
                                          !.cache = scan.cache]
                    ELSE [switched EXCEPT !.account_name = original_acct,
                                          !.client = AzClientFor(a, original_acct),
                                          !.cache = <<>>]
        rest == AzScanAccounts(restored, Tail(accounts), prefix, recursive)
    IN  [recs |-> <<AzAccountRecord(acct)>> \o scan.recs \o rest.recs,
         diags |-> found.diags \o scan.diags
                   \o (IF restoreRaises
                       THEN <<Msg("stderr", "Error scanning account", acct.name)>>
                       ELSE <<>>)
                   \o rest.diags,
         obj |-> rest.obj]

AzScanAccounts(a, accounts, prefix, recursive) ==
    IF accounts = <<>> THEN [recs |-> <<>>, diags |-> <<>>, obj |-> a]
    ELSE
    LET acct == Head(accounts)
        initRaises == a.connstr = None /\ acct.bad
        switched == [a EXCEPT !.account_name = acct.name,
                              !.client = IF initRaises THEN a.client
                                         ELSE AzClientFor(a, acct.name)]
        found == AzListContainers(switched, acct.name)
        rest == AzScanAccounts(switched, Tail(accounts), prefix, recursive)
    IN  IF initRaises
        THEN [recs |-> rest.recs,
              diags |-> <<Msg("stderr", "Error scanning account", acct.name)>>
                        \o rest.diags,
              obj |-> rest.obj]
        ELSE AzAccountScanned(a, switched, found,
                              AzScanContainers(switched, found.items,
                                               prefix, recursive),
                              accounts, prefix, recursive)

\* AzureConnector.list_objects(prefix, container, recursive)
AzListObjects(a, prefix, container, recursive) ==
    LET target_container == Or(container, a.container)
    IN  IF target_container \in {None, ""}
        THEN IF ~a.mgmt THEN Raised(<<>>) @@ [obj |-> a]
             ELSE LET found == AzListStorageAccounts
                      scan == AzScanAccounts(a, found.items, prefix, recursive)
                  IN  Returned(scan.recs, found.diags \o scan.diags)
                      @@ [obj |-> scan.obj]
        ELSE LET r == AzListContainer(a, target_container, prefix, recursive)
             IN  [recs |-> r.recs, diags |-> r.diags, exc |-> r.exc,
                  obj |-> [a EXCEPT !.cache = r.cache]]


----------------------------------------------------------------------------
\* Initial state: one storage account / site holding the root Root, nothing
\* stored below it, no failing call; one connector of each kind configured
\* for that root.

InitEnv ==
    [groups |-> <<[name |-> "acct1", rg |-> "rg1", tags |-> EmptyMap,
                   location |-> "eastus", bad |-> FALSE, members |-> <<Root>>]>>,
     fails |-> {}]

InitConn ==
    [s3  |-> [bucket |-> Root],
     az  |-> [account_name |-> "acct1", rg |-> None, cfgTags |-> EmptyMap,
              connstr |-> None, mgmt |-> FALSE, client |-> "acct1",
              container |-> Root, cache |-> <<>>],
     dbx |-> [owner |-> None, volume |-> Root],
     sp  |-> [site_id |-> "acct1", drive_id |-> None]]

NoCall == [conn |-> "none", op |-> "none", prefix |-> <<>>, recursive |-> TRUE]

\* no earlier call
NoPrev == [call |-> NoCall, results |-> <<>>, raised |-> FALSE]

\* no driver running
NoDriver ==
    [cfg |-> {}, bad |-> {}, pos |-> EmptyMap, files |-> EmptyMap, all_metadata |-> <<>>]

Init ==
    /\ fs = (<<Root>> :> Node("root", 0))
    /\ failAt = EmptyMap
    /\ env = InitEnv
    /\ conn = InitConn
    /\ pc = "setup"
    /\ call = NoCall
    /\ results = <<>>
    /\ diags = <<>>
    /\ raised = FALSE
    /\ prev = NoPrev
    /\ drv = NoDriver
    /\ output = <<>>

----------------------------------------------------------------------------
\* The environment: what is stored, and which listing fails.

Dirs == {p \in DOMAIN fs : IsDir(p)}

\* a file or a directory is stored under an existing directory
AddNode(parent, name, kind, size) ==
    /\ pc = "setup"
    /\ Cardinality(DOMAIN fs) <= MaxNodes
    /\ Append(parent, name) \notin DOMAIN fs
    /\ fs' = (Append(parent, name) :> Node(kind, IF kind = "file" THEN size ELSE 0)) @@ fs
    /\ UNCHANGED <<failAt, env, conn, pc, call, results, diags, raised, prev, drv, output>>

\* listing one directory d fails from page `page` on, with an HTTP error
\* status or with an exception of the client
SetFail(d, page, mode) ==
    /\ pc = "setup"
    /\ failAt = EmptyMap
    /\ failAt' = (d :> [page |-> page, mode |-> mode]) @@ failAt
    /\ UNCHANGED <<fs, env, conn, pc, call, results, diags, raised, prev, drv, output>>

----------------------------------------------------------------------------
\* The calls.

\* the prefixes a caller passes: "" or a directory of the root
Prefixes == {Tail(d) : d \in {p \in Dirs : p[1] = Root}}

\* a caller makes a call, or repeats the call it made before
MayCall(c) == pc = "setup" \/ (pc = "retry" /\ c = prev.call)

Finish(c, r) ==
    /\ pc' = "done"
    /\ call' = c
    /\ results' = r.recs
    /\ diags' = r.diags
    /\ raised' = r.exc
    /\ UNCHANGED <<fs, failAt, env, prev, drv, output>>

CallS3List(prefix) ==
    /\ MayCall([conn |-> "s3", op |-> "list_objects", prefix |-> prefix,
                recursive |-> TRUE])
    /\ Finish([conn |-> "s3", op |-> "list_objects", prefix |-> prefix,
               recursive |-> TRUE],
              S3ListObjects(conn.s3, prefix, None))
    /\ UNCHANGED conn

CallAzList(prefix, recursive) ==
    /\ MayCall([conn |-> "azure", op |-> "list_objects", prefix |-> prefix,
                recursive |-> recursive])
    /\ LET r == AzListObjects(conn.az, prefix, None, recursive)
       IN  /\ Finish([conn |-> "azure", op |-> "list_objects", prefix |-> prefix,
                      recursive |-> recursive], r)
           /\ conn' = [conn EXCEPT !.az = r.obj]

CallDbxList(prefix, recursive) ==
    /\ pc = "setup"
    /\ LET r == DbxListObjects(conn.dbx, prefix, None, recursive)
       IN  /\ Finish([conn |-> "databricks", op |-> "list_objects",
                      prefix |-> prefix, recursive |-> recursive], r)
           /\ conn' = [conn EXCEPT !.dbx.owner = r.owner]

CallSpList ==
    /\ MayCall([conn |-> "sharepoint", op |-> "list_objects", prefix |-> <<>>,
                recursive |-> TRUE])
    /\ Finish([conn |-> "sharepoint", op |-> "list_objects", prefix |-> <<>>,
               recursive |-> TRUE],
              SpListObjects(conn.sp, None, None))
    /\ UNCHANGED conn

Next ==
    \/ \E parent \in Dirs, i \in 1..Len(Names), kind \in {"file", "dir"}, size \in Sizes :
          AddNode(parent, Names[i], kind, size)
    \/ \E d \in Dirs, page \in 1..MaxFailPage, mode \in {"status", "exception"} :
          SetFail(d, page, mode)
    \/ \E prefix \in Prefixes : CallS3List(prefix)
    \/ \E prefix \in Prefixes, recursive \in BOOLEAN : CallAzList(prefix, recursive)
    \/ \E prefix \in Prefixes, recursive \in BOOLEAN : CallDbxList(prefix, recursive)
    \/ CallSpList

Spec == Init /\ [][Next]_vars

----------------------------------------------------------------------------
\* Second specification: owners and tags.  The namespace is fixed (a file
\* and a directory with a file in it); the environment attaches ACL owners,
\* tags and metadata, the caller calls list_objects or get_metadata, and
\* may repeat a list_objects call on a fresh connector while the backend
\* refuses some of the reads.

ObjFile == <<Root, "a">>
ObjDir == <<Root, "b">>

InitResolve ==
    /\ fs = (<<Root>> :> Node("root", 0)) @@ (ObjFile :> Node("file", 1))
            @@ (ObjDir :> Node("dir", 0)) @@ (<<Root, "b", "a">> :> Node("file", 2))
    /\ failAt = EmptyMap
    /\ env = InitEnv
    /\ conn = [InitConn EXCEPT !.az.mgmt = TRUE, !.az.rg = "rg1"]
    /\ pc = "setup"
    /\ call = NoCall
    /\ results = <<>>
    /\ diags = <<>>
    /\ raised = FALSE
    /\ prev = NoPrev
    /\ drv = NoDriver
    /\ output = <<>>

\* what the environment can attach to a node, each with a value of its own
NodeSlots ==
    {[node |-> ObjFile, field |-> "acl", key |-> None, value |-> "A"],
     [node |-> ObjFile, field |-> "tags", key |-> "owner", value |-> "B"],
     [node |-> ObjFile, field |-> "tags", key |-> "k", value |-> "obj"],
     [node |-> ObjFile, field |-> "meta", key |-> "owner", value |-> "M"],
     [node |-> ObjFile, field |-> "owner", key |-> None, value |-> "S3Owner"],
     [node |-> ObjDir, field |-> "acl", key |-> None, value |-> "dirA"],
     [node |-> ObjDir, field |-> "tags", key |-> "k", value |-> "dir"],
     [node |-> ObjDir, field |-> "meta", key |-> "owner", value |-> "dirM"],
     [node |-> <<Root>>, field |-> "tags", key |-> "owner", value |-> "bucketOwner"],
     [node |-> <<Root>>, field |-> "tags", key |-> "k", value |-> "bucket"],
     [node |-> <<Root>>, field |-> "meta", key |-> "owner", value |-> "C"],
     [node |-> <<Root>>, field |-> "meta", key |-> "k", value |-> "cont"]}

\* the tags of the storage account on the management plane
AcctSlots == {[key |-> "owner", value |-> "D"], [key |-> "k", value |-> "acct"]}

\* the account tags handed to the connector in its configuration
CfgSlots == {[key |-> "owner", value |-> "E"]}

NodeSlotSet(sl) ==
    CASE sl.field = "acl" -> fs[sl.node].acl # None
      [] sl.field = "owner" -> fs[sl.node].owner # None
      [] sl.field = "tags" ->
            \E i \in 1..Len(fs[sl.node].tags) : fs[sl.node].tags[i].Key = sl.key
      [] sl.field = "meta" -> sl.key \in DOMAIN fs[sl.node].meta

NumAttrs ==
    Cardinality({sl \in NodeSlots : NodeSlotSet(sl)})
    + Cardinality(DOMAIN env.groups[1].tags) + Cardinality(DOMAIN conn.az.cfgTags)

SetNodeAttr(sl) ==
    /\ pc = "setup"
    /\ NumAttrs < MaxAttrs
    /\ ~NodeSlotSet(sl)
    /\ fs' = [fs EXCEPT ![sl.node] =
                CASE sl.field = "acl" -> [@ EXCEPT !.acl = sl.value]
                  [] sl.field = "owner" -> [@ EXCEPT !.owner = sl.value, !.ownerId = "id1"]
                  [] sl.field = "tags" ->
                        [@ EXCEPT !.tags = Append(@, [Key |-> sl.key, Value |-> sl.value])]
                  [] sl.field = "meta" ->
                        [@ EXCEPT !.meta = (sl.key :> sl.value) @@ @]]
    /\ UNCHANGED <<failAt, env, conn, pc, call, results, diags, raised, prev, drv, output>>

SetAcctTag(sl) ==
    /\ pc = "setup"
    /\ NumAttrs < MaxAttrs
    /\ sl.key \notin DOMAIN env.groups[1].tags
    /\ env' = [env EXCEPT !.groups[1].tags = (sl.key :> sl.value) @@ @]
    /\ UNCHANGED <<fs, failAt, conn, pc, call, results, diags, raised, prev, drv, output>>

SetCfgTag(sl) ==
    /\ pc = "setup"
    /\ NumAttrs < MaxAttrs
    /\ sl.key \notin DOMAIN conn.az.cfgTags
    /\ conn' = [conn EXCEPT !.az.cfgTags = (sl.key :> sl.value) @@ @]
    /\ UNCHANGED <<fs, failAt, env, pc, call, results, diags, raised, prev, drv, output>>

CallS3Get(q) ==
    /\ pc = "setup"
    /\ Finish([conn |-> "s3", op |-> "get_metadata", prefix |-> Tail(q),
               recursive |-> TRUE],
              S3GetMetadata(conn.s3, q))
    /\ UNCHANGED conn

CallAzGet(q) ==
    /\ pc = "setup"
    /\ LET r == AzGetMetadata(conn.az, q)
       IN  /\ Finish([conn |-> "azure", op |-> "get_metadata", prefix |-> Tail(q),
                      recursive |-> TRUE], r)
           /\ conn' = [conn EXCEPT !.az.cache = r.cache]

\* the reads list_objects guards, per connector
GuardedReads(c) ==
    IF c = "s3" THEN {"bucket_tagging", "fetch_owner"}
    ELSE IF c = "azure"
    THEN {"blob_acl", "dir_acl", "dir_tags", "dir_props", "acct_props",
          "acct_info", "walk_include"}
    ELSE {}

\* the backend starts refusing the reads F; the caller builds a connector
\* from the same configuration and is about to repeat its list_objects call
RefuseReads(F) ==
    /\ pc = "done" /\ prev = NoPrev /\ call.op = "list_objects"
    /\ F # {} /\ Cardinality(F) <= MaxReadFail
    /\ prev' = [call |-> call, results |-> results, raised |-> raised]
    /\ env' = [env EXCEPT !.fails = F]
    /\ conn' = [conn EXCEPT !.az.cache = <<>>]
    /\ pc' = "retry"
    /\ call' = NoCall
    /\ results' = <<>>
    /\ diags' = <<>>
    /\ raised' = FALSE
    /\ UNCHANGED <<fs, failAt, drv, output>>

NextResolve ==
    \/ \E sl \in NodeSlots : SetNodeAttr(sl)
    \/ \E sl \in AcctSlots : SetAcctTag(sl)
    \/ \E sl \in CfgSlots : SetCfgTag(sl)
    \/ CallS3List(<<>>)
    \/ CallAzList(<<>>, TRUE)
    \/ CallS3Get(ObjFile)
    \/ CallAzGet(ObjFile)
    \/ \E F \in SUBSET GuardedReads(call.conn) : RefuseReads(F)

SpecResolve == InitResolve /\ [][NextResolve]_vars

----------------------------------------------------------------------------
\* Third specification: discovery mode.  No root is configured; the
\* backend has zero, one or two accounts / sites holding up to three roots
\* (buckets, containers, drives).  A listing may fail before the call, and
\* a discovery call may be repeated on a fresh connector after one root has
\* started to fail.

DiscRoots == <<"r1", "r2", "r3">>

Account1 ==
    [name |-> "acct1", rg |-> "rg1", tags |-> ("owner" :> "D"),
     location |-> "eastus", bad |-> FALSE, members |-> <<"r1", "r2">>]

Account2 ==
    [name |-> "acct2", rg |-> "rg2", tags |-> EmptyMap,
     location |-> "westus", bad |-> FALSE, members |-> <<"r3">>]

\* what the backend holds: nothing, one account, or two
EnvShapes == {<<>>, <<Account1>>, <<Account1, Account2>>}

\* an Azure connector built from a subscription id alone (discovery only),
\* or from an account name without a subscription id
AzConfigs ==
    {[account_name |-> None, rg |-> None, cfgTags |-> EmptyMap, connstr |-> None,
      mgmt |-> TRUE, client |-> None, container |-> None, cache |-> <<>>],
     [account_name |-> "acct1", rg |-> None, cfgTags |-> EmptyMap, connstr |-> None,
      mgmt |-> FALSE, client |-> "acct1", container |-> None, cache |-> <<>>]}

InitDiscover ==
    /\ fs = (<<"r1">> :> Node("root", 0)) @@ (<<"r1", "a">> :> Node("file", 1))
            @@ (<<"r2">> :> Node("root", 0)) @@ (<<"r2", "a">> :> Node("file", 2))
            @@ (<<"r3">> :> Node("root", 0)) @@ (<<"r3", "a">> :> Node("file", 1))
    /\ failAt = EmptyMap
    /\ \E groups \in EnvShapes : env = [groups |-> groups, fails |-> {}]
    /\ \E az \in AzConfigs :
          conn = [s3 |-> [bucket |-> None], az |-> az,
                  dbx |-> [owner |-> None, volume |-> None],
                  sp |-> [site_id |-> None, drive_id |-> None]]
    /\ pc = "setup"
    /\ call = NoCall
    /\ results = <<>>
    /\ diags = <<>>
    /\ raised = FALSE
    /\ prev = NoPrev
    /\ drv = NoDriver
    /\ output = <<>>

\* the listings a discovery call makes: of the accounts, of the sites, of
\* the containers of an account, and of each root
DiscListings ==
    {<<"accounts">>, <<"sites">>, <<"containers">>}
    \cup {<<DiscRoots[i]>> : i \in 1..Len(DiscRoots)}

\* list_buckets is refused
RefuseListBuckets ==
    /\ pc = "setup"
    /\ failAt = EmptyMap /\ env.fails = {}
    /\ env' = [env EXCEPT !.fails = {"list_buckets"}]
    /\ UNCHANGED <<fs, failAt, conn, pc, call, results, diags, raised, prev, drv, output>>

\* the caller keeps the list a discovery call without failures returned
\* and is about to repeat the call on the same connector
Repeat ==
    /\ pc = "done" /\ prev = NoPrev /\ ~raised
    /\ failAt = EmptyMap /\ env.fails = {}
    /\ prev' = [call |-> call, results |-> results, raised |-> raised]
    /\ pc' = "retry"
    /\ call' = NoCall
    /\ results' = <<>>
    /\ diags' = <<>>
    /\ raised' = FALSE
    /\ UNCHANGED <<fs, conn, drv, output>>

\* ... after the listing of one root has started to fail
RootStartsFailing(d, page, mode) ==
    /\ Repeat
    /\ failAt' = (d :> [page |-> page, mode |-> mode])
    /\ UNCHANGED env

\* ... after the data-plane clients of one account can no longer be built
AccountStartsFailing(i) ==
    /\ Repeat
    /\ call.conn = "azure"
    /\ env' = [env EXCEPT !.groups[i].bad = TRUE]
    /\ UNCHANGED failAt

NextDiscover ==
    \/ \E d \in DiscListings, page \in 1..MaxFailPage, mode \in {"status", "exception"} :
          SetFail(d, page, mode)
    \/ RefuseListBuckets
    \/ CallS3List(<<>>)
    \/ \E recursive \in BOOLEAN : CallAzList(<<>>, recursive)
    \/ CallSpList
    \/ \E i \in 1..Len(DiscRoots), page \in 1..MaxFailPage, mode \in {"status", "exception"} :
          RootStartsFailing(<<DiscRoots[i]>>, page, mode)
    \/ \E i \in 1..Len(env.groups) : AccountStartsFailing(i)

SpecDiscover == InitDiscover /\ [][NextDiscover]_vars

----------------------------------------------------------------------------
\* Fourth specification: serialisation.  A record as the connectors and
\* the demo scripts build them is serialised by to_dict.

\* the parser the round trip needs: fixed keys back into their fields (an
\* absent key is None, an absent "tag" the empty dict, ISO strings back
\* into datetimes), every other key into extra_metadata
FromIso(v) ==
    CASE v = "2025-01-10T12:30:00+00:00" -> "T1"
      [] v = "2025-01-15T09:10:00" -> "T2"
      [] OTHER -> v

Parse(d) ==
    FileMetadata(d["path"], d["type"], d["size_bytes"],
                 FromIso(Get(d, "last_modified")), d["source"], Get(d, "owner"),
                 FromIso(Get(d, "last_accessed")), Get(d, "content_type"),
                 Get(d, "etag"),
                 IF "tag" \in DOMAIN d THEN d["tag"] ELSE EmptyMap,
                 [k \in DOMAIN d \ FixedKeys |-> d[k]])

\* keys and values of extra_metadata: S3 get_metadata passes storage_class
\* and version_id (None without versioning), the S3 demo passes etag
ExtraKeys == {"storage_class", "etag"}
ExtraValues == {"e", None}
ExtraChoices == UNION {[K -> ExtraValues] : K \in SUBSET ExtraKeys}

InitRoundTrip ==
    /\ fs = (<<Root>> :> Node("root", 0))
    /\ failAt = EmptyMap
    /\ env = InitEnv
    /\ conn = InitConn
    /\ pc = "setup"
    /\ call = NoCall
    /\ \E type \in {"file", "directory"}, size \in Sizes,
          last_modified \in Datetimes \cup {None}, owner \in {None, "o"},
          etag \in {None, "e"}, tags \in {EmptyMap, ("k" :> "v")},
          extra \in ExtraChoices :
          results = <<FileMetadata(PathStr("s3", Root, <<"a">>, FALSE), type, size,
                                   last_modified, "s3", owner, None, None, etag,
                                   tags, extra)>>
    /\ diags = <<>>
    /\ raised = FALSE
    /\ prev = NoPrev
    /\ drv = NoDriver
    /\ output = <<>>

\* [item.to_dict() for item in ...]
Serialize ==
    /\ pc = "setup"
    /\ output' = [i \in 1..Len(results) |-> to_dict(results[i])]
    /\ pc' = "done"
    /\ call' = [conn |-> "none", op |-> "to_dict", prefix |-> <<>>, recursive |-> TRUE]
    /\ UNCHANGED <<fs, failAt, env, conn, results, diags, raised, prev, drv>>

NextRoundTrip == Serialize

SpecRoundTrip == InitRoundTrip /\ [][NextRoundTrip]_vars

----------------------------------------------------------------------------
\* Fifth specification: the aggregation driver fetch_all.  One block per
\* configured backend, in the order S3, Azure, SharePoint: build the
\* connector, list_objects(), extend all_metadata; an exception anywhere in
\* the block is printed to stderr.  Then the list is serialised and printed.

Backends == <<"s3", "azure", "sharepoint">>

\* x.list_objects() on the connector of backend b among the connectors c
ListObjectsOf(b, c) ==
    CASE b = "s3" -> S3ListObjects(c.s3, <<>>, None)
      [] b = "azure" -> AzListObjects(c.az, <<>>, None, TRUE)
      [] b = "sharepoint" -> SpListObjects(c.sp, None, None)

\* all_metadata = results
ExtendOverwrites(all_metadata, files) == files

\* all_metadata.extend(results)
Extend(all_metadata, files) == all_metadata \o files

\* the blocks before the block of b have been left
Turn(b) ==
    \A i, j \in 1..Len(Backends) :
        (i < j /\ Backends[j] = b) => drv.pos[Backends[i]] \in {"skipped", "done", "failed"}

\* the except clause of a block
Except(b, ds) ==
    /\ drv' = [drv EXCEPT !.pos[b] = "failed"]
    /\ diags' = diags \o ds \o <<Msg("stderr", "Error fetching", b)>>

\* get_connector(b, config): the Azure constructor raises on a malformed
\* connection string, the SharePoint constructor without a tenant id
BuildStep(b) ==
    /\ pc = "running" /\ drv.pos[b] = "todo"
    /\ IF b \in drv.bad THEN Except(b, <<>>)
       ELSE drv' = [drv EXCEPT !.pos[b] = "built"] /\ UNCHANGED diags
    /\ UNCHANGED <<fs, failAt, env, conn, pc, call, results, raised, prev, output>>

\* ... returns the list r.recs or raises
ScanReturns(b, r) ==
    /\ IF r.exc THEN Except(b, r.diags)
       ELSE /\ drv' = [drv EXCEPT !.pos[b] = "listed", !.files[b] = r.recs]
            /\ diags' = diags \o r.diags
    /\ conn' = IF b = "azure" THEN [conn EXCEPT !.az = r.obj] ELSE conn

\* results = x.list_objects()
ScanStep(b) ==
    /\ pc = "running" /\ drv.pos[b] = "built"
    /\ ScanReturns(b, ListObjectsOf(b, conn))
    /\ UNCHANGED <<fs, failAt, env, pc, call, results, raised, prev, output>>

\* all_metadata.extend(results)
ExtendStep(b) ==
    /\ pc = "running" /\ drv.pos[b] = "listed"
    /\ drv' = [drv EXCEPT !.pos[b] = "done",
                          !.all_metadata = Extend(drv.all_metadata, drv.files[b])]
    /\ UNCHANGED <<fs, failAt, env, conn, pc, call, results, diags, raised, prev, output>>

\* json_output = [item.to_dict() for item in all_metadata]; print
Emit ==
    /\ pc = "running"
    /\ \A i \in 1..Len(Backends) : drv.pos[Backends[i]] \in {"skipped", "done", "failed"}
    /\ pc' = "done"
    /\ call' = [conn |-> "driver", op |-> "fetch_all", prefix |-> <<>>, recursive |-> TRUE]
    /\ results' = drv.all_metadata
    /\ output' = [i \in 1..Len(drv.all_metadata) |-> to_dict(drv.all_metadata[i])]
    /\ UNCHANGED <<fs, failAt, env, conn, diags, raised, prev, drv>>

\* the configuration names the bucket r1, the container r2 of the account
\* acct1 and the site site1, whose drive is r3; any of the three roots may
\* be unlistable, the SharePoint token or the Azure account information may
\* be refused, a constructor may raise
InitDriver ==
    /\ fs = (<<"r1">> :> Node("root", 0)) @@ (<<"r1", "a">> :> Node("file", 1))
            @@ (<<"r2">> :> Node("root", 0)) @@ (<<"r2", "a">> :> Node("file", 2))
            @@ (<<"r2", "b">> :> Node("file", 1))
            @@ (<<"r3">> :> Node("root", 0)) @@ (<<"r3", "a">> :> Node("file", 1))
    /\ \E F \in SUBSET {<<"r1">>, <<"r2">>, <<"r3">>}, page \in 1..MaxFailPage,
          mode \in {"status", "exception"} :
          failAt = [d \in F |-> [page |-> page, mode |-> mode]]
    /\ \E fails \in {{}, {"token"}, {"acct_info"}} :
          env = [groups |-> <<[name |-> "acct1", rg |-> "rg1", tags |-> EmptyMap,
                               location |-> "eastus", bad |-> FALSE,
                               members |-> <<"r2">>],
                              [name |-> "site1", rg |-> None, tags |-> EmptyMap,
                               location |-> None, bad |-> FALSE,
                               members |-> <<"r3">>]>>,
                 fails |-> fails]
    /\ \E drive_id \in {None, "r3"} :
          conn = [s3 |-> [bucket |-> "r1"],
                  az |-> [account_name |-> "acct1", rg |-> None, cfgTags |-> EmptyMap,
                          connstr |-> None, mgmt |-> FALSE, client |-> "acct1",
                          container |-> "r2", cache |-> <<>>],
                  dbx |-> [owner |-> None, volume |-> None],
                  sp |-> [site_id |-> "site1", drive_id |-> drive_id]]
    /\ pc = "running"
    /\ call = NoCall
    /\ results = <<>>
    /\ diags = <<>>
    /\ raised = FALSE
    /\ prev = NoPrev
    /\ \E cfg \in SUBSET {"s3", "azure", "sharepoint"},
          bad \in SUBSET {"azure", "sharepoint"} :
          /\ bad \subseteq cfg
          /\ drv = [cfg |-> cfg, bad |-> bad,
                    pos |-> [b \in {"s3", "azure", "sharepoint"} |->
                               IF b \in cfg THEN "todo" ELSE "skipped"],
                    files |-> [b \in {"s3", "azure", "sharepoint"} |-> <<>>],
                    all_metadata |-> <<>>]
    /\ output = <<>>

NextDriver ==
    \/ \E i \in 1..Len(Backends) : Turn(Backends[i]) /\ BuildStep(Backends[i])
    \/ \E i \in 1..Len(Backends) : Turn(Backends[i]) /\ ScanStep(Backends[i])
    \/ \E i \in 1..Len(Backends) : Turn(Backends[i]) /\ ExtendStep(Backends[i])
    \/ Emit

SpecDriver == InitDriver /\ [][NextDriver]_vars

\* Sixth specification: the blocks of fetch_all as parallel tasks, one per
\* backend, each with its own results; their steps interleave in any order.
InitTasks ==
    /\ InitDriver
    /\ drv.bad = {} /\ env.fails = {} /\ conn.sp.drive_id = None

NextTasks ==
    \/ \E i \in 1..Len(Backends) : BuildStep(Backends[i])
    \/ \E i \in 1..Len(Backends) : ScanStep(Backends[i])
    \/ \E i \in 1..Len(Backends) : ExtendStep(Backends[i])
    \/ Emit

SpecTasks == InitTasks /\ [][NextTasks]_vars

----------------------------------------------------------------------------
\* Seventh specification: the spelling of the owner key and the superuser
\* sentinel.  The tree of the second specification; the environment
\* attaches up to MaxKeyAttrs entries whose key is a spelling of "owner",
\* or an ACL whose owner is the sentinel, then one call is made.

MaxKeyAttrs == 2

\* k.strip().lower() for the keys of the model
NormKey(k) == IF k \in {"owner", "Owner", "OWNER", " owner "} THEN "owner" ELSE k

KeySlots ==
    {[node |-> ObjFile, field |-> "tags", key |-> "Owner", value |-> "B1"],
     [node |-> ObjFile, field |-> "tags", key |-> "OWNER", value |-> "B2"],
     [node |-> ObjFile, field |-> "tags", key |-> " owner ", value |-> "B3"],
     [node |-> ObjFile, field |-> "tags", key |-> "owner", value |-> "B"],
     [node |-> ObjFile, field |-> "meta", key |-> "OWNER", value |-> "M2"],
     [node |-> <<Root>>, field |-> "tags", key |-> "Owner", value |-> "K1"],
     [node |-> <<Root>>, field |-> "tags", key |-> "OWNER", value |-> "K2"],
     [node |-> <<Root>>, field |-> "tags", key |-> " owner ", value |-> "K3"],
     [node |-> <<Root>>, field |-> "meta", key |-> "OWNER", value |-> "C2"],
     [node |-> <<Root>>, field |-> "meta", key |-> "Owner", value |-> "C1"],
     [node |-> ObjFile, field |-> "acl", key |-> None, value |-> "$superuser"],
     [node |-> ObjDir, field |-> "acl", key |-> None, value |-> "$superuser"],
     [node |-> ObjDir, field |-> "meta", key |-> "owner", value |-> "dirM"]}

AcctKeySlots ==
    {[key |-> "OWNER", value |-> "D2"], [key |-> " owner ", value |-> "D3"],
     [key |-> "Owner", value |-> "D1"]}

NumKeyAttrs ==
    Cardinality({sl \in KeySlots : NodeSlotSet(sl)})
    + Cardinality(DOMAIN env.groups[1].tags)

NextOwnerKeys ==
    \/ \E sl \in KeySlots : NumKeyAttrs < MaxKeyAttrs /\ SetNodeAttr(sl)
    \/ \E sl \in AcctKeySlots : NumKeyAttrs < MaxKeyAttrs /\ SetAcctTag(sl)
    \/ CallS3List(<<>>)
    \/ CallAzList(<<>>, TRUE)
    \/ CallAzGet(ObjFile)

SpecOwnerKeys == InitResolve /\ [][NextOwnerKeys]_vars

----------------------------------------------------------------------------
\* Eighth specification: the factory.  get_connector is called once with
\* a source string and a configuration dict.

Sources == {"s3", "azure", "databricks", "sharepoint", "S3", "gcs", ""}

\* the configurations: any subset of the keys the constructors test, each
\* with a value; the Databricks host and token may also be empty strings
ConfigValues(k) == IF k \in {"databricks_host", "databricks_token"} THEN {"x", ""} ELSE {"x"}

Configs ==
    UNION {{c \in [K -> {"x", ""}] : \A k \in K : c[k] \in ConfigValues(k)} :
             K \in SUBSET {"databricks_host", "databricks_token", "connection_string",
                           "azure_account_name", "azure_subscription_id", "container",
                           "sharepoint_tenant_id", "sharepoint_client_id",
                           "sharepoint_client_secret"}}

\* the class get_connector constructs for a source
ClassOf(source) ==
    CASE source = "s3" -> "S3Connector"
      [] source = "azure" -> "AzureConnector"
      [] source = "databricks" -> "DatabricksConnector"
      [] source = "sharepoint" -> "SharePointConnector"
      [] OTHER -> None

\* the exception the constructor of a class raises on a configuration, None
\* when it returns.  S3Connector: none.  AzureConnector: ValueError without
\* connection string, account name and subscription id; AttributeError
\* when a subscription id comes with a connection string (self.credential
\* was never set) and when a container comes with a subscription id alone
\* (the datalake client is None).  DatabricksConnector: KeyError without the
\* host or token key, ValueError when one is empty.  SharePointConnector:
\* ValueError without tenant id, client id and client secret.
ConstructorRaises(cls, config) ==
    LET has(k) == Get(config, k) \notin {None, ""}
    IN  CASE cls = "S3Connector" -> None
          [] cls = "AzureConnector" ->
                IF has("connection_string")
                THEN IF has("azure_subscription_id") THEN "AttributeError" ELSE None
                ELSE IF has("azure_account_name") THEN None
                ELSE IF has("azure_subscription_id")
                THEN IF has("container") THEN "AttributeError" ELSE None
                ELSE "ValueError"
          [] cls = "DatabricksConnector" ->
                IF "databricks_host" \notin DOMAIN config
                   \/ "databricks_token" \notin DOMAIN config
                THEN "KeyError"
                ELSE IF ~has("databricks_host") \/ ~has("databricks_token")
                THEN "ValueError" ELSE None
          [] cls = "SharePointConnector" ->
                IF has("sharepoint_tenant_id") /\ has("sharepoint_client_id")
                   /\ has("sharepoint_client_secret")
                THEN None ELSE "ValueError"

\* get_connector with S3Connector as the fallback of the if-chain
get_connector_default_s3(source, config) ==
    LET cls == IF ClassOf(source) = None THEN "S3Connector" ELSE ClassOf(source)
        exc == ConstructorRaises(cls, config)
    IN  [returned |-> IF exc = None THEN cls ELSE None, exc |-> exc,
         constructed |-> {cls}]

\* get_connector(source, config): what is returned, the exception that
\* leaves the call, and the classes whose constructor was called
get_connector(source, config) ==
    IF ClassOf(source) = None
    THEN [returned |-> None, exc |-> "ValueError", constructed |-> {}]
    ELSE LET exc == ConstructorRaises(ClassOf(source), config)
         IN  [returned |-> IF exc = None THEN ClassOf(source) ELSE None,
              exc |-> exc, constructed |-> {ClassOf(source)}]

CallGetConnector(source, config) ==
    /\ pc = "setup"
    /\ pc' = "done"
    /\ call' = [conn |-> source, op |-> "get_connector", prefix |-> <<>>,
                recursive |-> TRUE, config |-> config]
    /\ output' = <<get_connector(source, config)>>
    /\ raised' = (get_connector(source, config).exc # None)
    /\ UNCHANGED <<fs, failAt, env, conn, results, diags, prev, drv>>

NextFactory == \E source \in Sources, config \in Configs : CallGetConnector(source, config)

SpecFactory == Init /\ [][NextFactory]_vars

----------------------------------------------------------------------------
\* Ninth specification: DBFS.  The connector is built from host and token
\* alone (no catalog, schema or volume); the namespace is the DBFS tree, and
\* the caller passes a path with or without the dbfs: scheme.

InitDbfs ==
    /\ fs = (<<Root>> :> Node("root", 0))
    /\ failAt = EmptyMap
    /\ env = InitEnv
    /\ conn = [InitConn EXCEPT !.dbx.volume = None]
    /\ pc = "setup"
    /\ call = NoCall
    /\ results = <<>>
    /\ diags = <<>>
    /\ raised = FALSE
    /\ prev = NoPrev
    /\ drv = NoDriver
    /\ output = <<>>

NextDbfs ==
    \/ \E parent \in Dirs, i \in 1..Len(Names), kind \in {"file", "dir"}, size \in Sizes :
          AddNode(parent, Names[i], kind, size)
    \/ \E d \in Dirs, page \in 1..MaxFailPage, mode \in {"status", "exception"} :
          SetFail(d, page, mode)
    \/ \E prefix \in Prefixes, recursive \in BOOLEAN : CallDbxList(prefix, recursive)
    \/ \E prefix \in Prefixes, recursive \in BOOLEAN :
          CallDbxList(<<"dbfs:">> \o prefix, recursive)

SpecDbfs == InitDbfs /\ [][NextDbfs]_vars

----------------------------------------------------------------------------
\* Tenth specification: the Azure account context.  Three storage accounts
\* of one resource group, each with its own tags and one container; a
\* connector with a management client and no container, whose configuration
\* may name an account, the resource group and account tags.  Before the
\* discovery call the clients of an account may become impossible to build,
\* the account reads may start to fail, and the caller may call
\* get_account_metadata.

CtxAccounts ==
    <<[name |-> "acct1", rg |-> "rg1", tags |-> ("owner" :> "D1"),
       location |-> "eastus", bad |-> FALSE, members |-> <<"r1">>],
      [name |-> "acct2", rg |-> "rg1", tags |-> ("owner" :> "D2"),
       location |-> "eastus", bad |-> FALSE, members |-> <<"r2">>],
      [name |-> "acct3", rg |-> "rg1", tags |-> ("owner" :> "D3"),
       location |-> "eastus", bad |-> FALSE, members |-> <<"r3">>]>>

CtxConfigs ==
    {[account_name |-> n, rg |-> g, cfgTags |-> t, connstr |-> None,
      mgmt |-> TRUE, client |-> n, container |-> None, cache |-> <<>>] :
        n \in {None, "acct1"}, g \in {None, "rg1"},
        t \in {EmptyMap, ("team" :> "T")}}

\* conn.az_built is the connector as its constructor left it
InitAzContext ==
    /\ fs = (<<"r1">> :> Node("root", 0)) @@ (<<"r1", "a">> :> Node("file", 1))
            @@ (<<"r2">> :> Node("root", 0)) @@ (<<"r2", "a">> :> Node("file", 2))
            @@ (<<"r3">> :> Node("root", 0)) @@ (<<"r3", "a">> :> Node("file", 1))
            @@ (<<"r3", "b">> :> Node("dir", 0))
    /\ failAt = EmptyMap
    /\ env = [groups |-> CtxAccounts, fails |-> {}]
    /\ \E az \in CtxConfigs :
          conn = [s3 |-> [bucket |-> None], az |-> az, az_built |-> az,
                  dbx |-> [owner |-> None, volume |-> None],
                  sp |-> [site_id |-> None, drive_id |-> None]]
    /\ pc = "setup"
    /\ call = NoCall
    /\ results = <<>>
    /\ diags = <<>>
    /\ raised = FALSE
    /\ prev = NoPrev
    /\ drv = NoDriver
    /\ output = <<>>

\* the data-plane clients of account i can no longer be built
\* (_init_data_clients raises); not the account the connector was built for
AccountTurnsBad(i) ==
    /\ pc = "setup" /\ prev = NoPrev
    /\ ~env.groups[i].bad /\ env.groups[i].name # conn.az.account_name
    /\ env' = [env EXCEPT !.groups[i].bad = TRUE]
    /\ UNCHANGED <<fs, failAt, conn, pc, call, results, diags, raised, prev, drv, output>>

\* get_account_information or storage_accounts.get_properties start to fail
AccountReadsFail(F) ==
    /\ pc = "setup" /\ prev = NoPrev
    /\ env.fails = {} /\ F # {}
    /\ env' = [env EXCEPT !.fails = F]
    /\ UNCHANGED <<fs, failAt, conn, pc, call, results, diags, raised, prev, drv, output>>

\* the caller calls get_account_metadata, which caches what it returns
CallAzAccountMetadata ==
    /\ pc = "setup" /\ prev = NoPrev
    /\ conn' = [conn EXCEPT !.az.cache = <<AzAccountMetadata(conn.az).meta>>]
    /\ prev' = [call |-> [conn |-> "azure", op |-> "get_account_metadata",
                          prefix |-> <<>>, recursive |-> TRUE],
                results |-> <<>>, raised |-> FALSE]
    /\ UNCHANGED <<fs, failAt, env, pc, call, results, diags, raised, drv, output>>

NextAzContext ==
    \/ \E i \in 1..Len(env.groups) : AccountTurnsBad(i)
    \/ \E F \in SUBSET {"acct_info", "acct_props"} : AccountReadsFail(F)
    \/ CallAzAccountMetadata
    \/ \E recursive \in BOOLEAN : CallAzList(<<>>, recursive)

SpecAzContext == InitAzContext /\ [][NextAzContext]_vars

----------------------------------------------------------------------------
\* Eleventh specification: Databricks volume owners.  Two volumes, each
\* with an owner or none and a file; one connector, configured for the
\* first volume with or without databricks_owner, on which list_objects is
\* called once or twice, each time with or without a volume override.

VolumeOwners == {None, "O1", "O2"}

InitVolumes ==
    /\ \E o1 \in VolumeOwners, o2 \in VolumeOwners :
          fs = (<<"r1">> :> [Node("root", 0) EXCEPT !.owner = o1])
               @@ (<<"r1", "a">> :> Node("file", 1))
               @@ (<<"r2">> :> [Node("root", 0) EXCEPT !.owner = o2])
               @@ (<<"r2", "a">> :> Node("file", 2))
               @@ (<<"r2", "b">> :> Node("dir", 0))
    /\ failAt = EmptyMap
    /\ env = InitEnv
    /\ \E owner \in {None, "cfg"} :
          conn = [InitConn EXCEPT !.dbx = [owner |-> owner, volume |-> "r1"]]
    /\ pc = "setup"
    /\ call = NoCall
    /\ results = <<>>
    /\ diags = <<>>
    /\ raised = FALSE
    /\ prev = NoPrev
    /\ drv = NoDriver
    /\ output = <<>>

\* list_objects(volume=...) on the connector, as the first call or after an
\* earlier call, which is kept in prev
CallDbxVolume(volume, recursive) ==
    /\ pc = "setup" \/ (pc = "done" /\ prev = NoPrev)
    /\ pc' = "done"
    /\ call' = [conn |-> "databricks", op |-> "list_objects", prefix |-> <<>>,
                recursive |-> recursive, volume |-> volume]
    /\ results' = DbxListObjects(conn.dbx, <<>>, volume, recursive).recs
    /\ diags' = DbxListObjects(conn.dbx, <<>>, volume, recursive).diags
    /\ raised' = DbxListObjects(conn.dbx, <<>>, volume, recursive).exc
    /\ conn' = [conn EXCEPT !.dbx.owner =
                   DbxListObjects(conn.dbx, <<>>, volume, recursive).owner]
    /\ prev' = IF pc = "setup" THEN prev
               ELSE [call |-> call, results |-> results, raised |-> raised]
    /\ UNCHANGED <<fs, failAt, env, drv, output>>

NextVolumes ==
    \E volume \in {None, "r1", "r2"}, recursive \in BOOLEAN : CallDbxVolume(volume, recursive)

SpecVolumes == InitVolumes /\ [][NextVolumes]_vars

----------------------------------------------------------------------------
\* Twelfth specification: the SharePoint site.  Two sites with their
\* drives; the connector is configured with a site id, a site URL, both or
\* neither, and the request that resolves a URL may fail.

\* the site a URL addresses (no entry: no such site)
SiteUrls == ("url1" :> "acct1") @@ ("url2" :> "acct2")

\* _resolve_site_id_from_url: the id of the site, or None when the request
\* fails, answers with an error status or the URL addresses no site
SpResolveSiteIdFromUrl(url) ==
    IF "resolve_site" \in env.fails \/ url \notin DOMAIN SiteUrls THEN None
    ELSE SiteUrls[url]

\* self.site_id as the constructor leaves it
SpInitSiteId(site_id, site_url) ==
    IF site_id \in {None, ""} /\ site_url \notin {None, ""}
    THEN SpResolveSiteIdFromUrl(site_url)
    ELSE site_id

InitSites ==
    /\ fs = (<<"r1">> :> Node("root", 0)) @@ (<<"r1", "a">> :> Node("file", 1))
            @@ (<<"r2">> :> Node("root", 0)) @@ (<<"r2", "a">> :> Node("file", 2))
            @@ (<<"r3">> :> Node("root", 0)) @@ (<<"r3", "a">> :> Node("file", 1))
    /\ failAt = EmptyMap
    /\ \E F \in {{}, {"resolve_site"}} : env = [groups |-> <<Account1, Account2>>, fails |-> F]
    /\ \E site_id \in {None, "acct1", "acct2"}, site_url \in {None, "url1", "url2", "url3"} :
          conn = [InitConn EXCEPT !.sp =
                     [site_id |-> SpInitSiteId(site_id, site_url), drive_id |-> None,
                      config |-> [sharepoint_site_id |-> site_id,
                                  sharepoint_site_url |-> site_url]]]
    /\ pc = "setup"
    /\ call = NoCall
    /\ results = <<>>
    /\ diags = <<>>
    /\ raised = FALSE
    /\ prev = NoPrev
    /\ drv = NoDriver
    /\ output = <<>>

NextSites ==
    \/ \E d \in DiscListings, page \in 1..MaxFailPage, mode \in {"status", "exception"} :
          SetFail(d, page, mode)
    \/ CallSpList

SpecSites == InitSites /\ [][NextSites]_vars

----------------------------------------------------------------------------
\* Thirteenth specification: timestamps of volume entries.  The namespace
\* grows as in the first specification; an entry may come without any
\* timestamp attribute ("absent") or with one whose value is None.

NoTimestamp(p, how) ==
    /\ pc = "setup"
    /\ p \in DOMAIN fs /\ Len(p) > 1 /\ fs[p].mtime = "T1"
    /\ fs' = [fs EXCEPT ![p].mtime = how]
    /\ UNCHANGED <<failAt, env, conn, pc, call, results, diags, raised, prev, drv, output>>

NextTimestamps ==
    \/ \E parent \in Dirs, i \in 1..Len(Names), kind \in {"file", "dir"}, size \in Sizes :
          AddNode(parent, Names[i], kind, size)
    \/ \E p \in DOMAIN fs, how \in {"absent", None} : NoTimestamp(p, how)
    \/ \E prefix \in Prefixes, recursive \in BOOLEAN : CallDbxList(prefix, recursive)

SpecTimestamps == Init /\ [][NextTimestamps]_vars

----------------------------------------------------------------------------
\* Fourteenth specification: the loops, step by step.  fetch_all runs with
\* SharePoint alone configured; list_objects walks the drives of the site,
\* and every iteration of the while loops of _fetch_children and
\* _calculate_folder_size is a step.  drv.walk holds the call stack: a frame
\* per running loop with the directory d, the index i of the next child in
\* listing order and the sum collected; drv.drives are the drives to come.

\* the loop of the top frame ends: _calculate_folder_size returns its sum to
\* the loop that called it, which records the folder or adds the sum and
\* goes on with its next item; _fetch_children returns to list_objects
Return(w) ==
    LET f == w.stack[Len(w.stack)]
        below == SubSeq(w.stack, 1, Len(w.stack) - 1)
    IN  IF below = <<>> THEN [w EXCEPT !.stack = <<>>]
        ELSE LET g == below[Len(below)]
             IN  [stack |-> SubSeq(below, 1, Len(below) - 1) \o
                            <<[g EXCEPT !.i = g.i + 1,
                                        !.total = IF g.kind = "size" THEN g.total + f.total
                                                  ELSE g.total]>>,
                  recs |-> IF g.kind = "fetch"
                           THEN Append(w.recs, SpMapItem(f.d, conn.sp.site_id, f.total))
                           ELSE w.recs,
                  exc |-> FALSE]

\* the loop requests the failed page again
BreakRetries(w) == w

\* break: the loop of the top frame ends on an error status (and, in
\* _calculate_folder_size, on an exception)
Break(w) == Return(w)

\* one iteration step of the loop of the top frame: the loop ends when
\* there is no nextLink; a page is requested when the next child starts
\* one; then the child is recorded or added, or, for a folder, sized by a
\* new frame
WalkNext(w) ==
    LET f == w.stack[Len(w.stack)]
        kids == Kids(f.d)
        requestFails == /\ (f.i - 1) % PageSize = 0
                        /\ f.d \in DOMAIN failAt
                        /\ failAt[f.d].page = ((f.i - 1) \div PageSize) + 1
    IN  IF f.i > Len(kids) /\ kids # <<>> THEN Return(w)
        ELSE IF requestFails
        THEN IF f.kind = "fetch" /\ failAt[f.d].mode = "exception"
             THEN [stack |-> <<>>, recs |-> <<>>, exc |-> TRUE]
             ELSE Break(w)
        ELSE IF kids = <<>> THEN Return(w)
        ELSE IF IsDir(kids[f.i])
        THEN [w EXCEPT !.stack = Append(w.stack, [kind |-> "size", d |-> kids[f.i],
                                                 i |-> 1, total |-> 0])]
        ELSE [stack |-> SubSeq(w.stack, 1, Len(w.stack) - 1) \o
                        <<[f EXCEPT !.i = f.i + 1,
                                    !.total = IF f.kind = "size"
                                              THEN f.total + fs[kids[f.i]].size
                                              ELSE f.total]>>,
              recs |-> IF f.kind = "fetch"
                       THEN Append(w.recs, SpMapItem(kids[f.i], conn.sp.site_id,
                                                     fs[kids[f.i]].size))
                       ELSE w.recs,
              exc |-> FALSE]

\* fetch_all starts, builds the SharePoint connector and calls list_objects,
\* which lists the drives of the site
WalkBegin ==
    /\ pc = "setup"
    /\ pc' = "running"
    /\ drv' = [cfg |-> {"sharepoint"}, bad |-> {},
               pos |-> [b \in {"s3", "azure", "sharepoint"} |->
                          IF b = "sharepoint" THEN "walking" ELSE "skipped"],
               files |-> [b \in {"s3", "azure", "sharepoint"} |-> <<>>],
               all_metadata |-> <<>>,
               walk |-> [stack |-> <<>>, recs |-> <<>>, exc |-> FALSE],
               drives |-> SpDrives(conn.sp.site_id)]
    /\ UNCHANGED <<fs, failAt, env, conn, call, results, diags, raised, prev, output>>

\* the loop over the drives: _fetch_children on the next drive, or return results
DriveDone ==
    /\ pc = "running" /\ drv.pos["sharepoint"] = "walking" /\ drv.walk.stack = <<>>
    /\ drv' = IF drv.drives # <<>>
              THEN [drv EXCEPT !.walk.stack = <<[kind |-> "fetch", d |-> <<Head(drv.drives)>>,
                                                 i |-> 1, total |-> 0]>>,
                               !.drives = Tail(drv.drives)]
              ELSE [drv EXCEPT !.pos["sharepoint"] = "listed",
                               !.files["sharepoint"] = drv.walk.recs]
    /\ UNCHANGED <<fs, failAt, env, conn, pc, call, results, diags, raised, prev, output>>

\* one step of the innermost running loop; an exception of a request of
\* _fetch_children leaves list_objects and reaches the except clause of fetch_all
WalkStep ==
    /\ pc = "running" /\ drv.pos["sharepoint"] = "walking" /\ drv.walk.stack # <<>>
    /\ IF WalkNext(drv.walk).exc THEN Except("sharepoint", <<>>)
       ELSE drv' = [drv EXCEPT !.walk = WalkNext(drv.walk)] /\ UNCHANGED diags
    /\ UNCHANGED <<fs, failAt, env, conn, pc, call, results, raised, prev, output>>

NextWalk ==
    \/ \E parent \in Dirs, i \in 1..Len(Names), kind \in {"file", "dir"}, size \in Sizes :
          AddNode(parent, Names[i], kind, size)
    \/ \E d \in Dirs, page \in 1..MaxFailPage, mode \in {"status", "exception"} :
          SetFail(d, page, mode)
    \/ WalkBegin
    \/ DriveDone
    \/ WalkStep
    \/ ExtendStep("sharepoint")
    \/ Emit

\* the program keeps running once started: its steps are weakly fair
SpecWalk ==
    /\ Init /\ [][NextWalk]_vars
    /\ WF_vars(DriveDone \/ WalkStep \/ ExtendStep("sharepoint") \/ Emit)

----------------------------------------------------------------------------
\* Claims.

\* sum of the backend-reported sizes of a set of files
RECURSIVE SizeOfSet(_)
SizeOfSet(ps) ==
    IF ps = {} THEN 0
    ELSE LET p == CHOOSE q \in ps : TRUE
         IN  fs[p].size + SizeOfSet(ps \ {p})

\* the files at every depth below a directory
FilesBelow(d) == {p \in DOMAIN fs : IsFile(p) /\ IsPrefix(d, p) /\ p # d}

\* the stored node a record of list_objects on Root describes
NodeOfRecord(rec) ==
    IF rec.path.scheme = "sharepoint"
    THEN <<rec.path.root[2]>> \o rec.path.key
    ELSE <<rec.path.root>> \o rec.path.key

NoFailure == failAt = EmptyMap /\ env.fails = {}

Returns == pc = "done" /\ ~raised

ListedDir == IF call.conn = "sharepoint" THEN <<Root>> ELSE <<Root>> \o call.prefix

\* TRUE when a record for the stored node p is in the returned list
HasRecord(p) == \E i \in 1..Len(results) : NodeOfRecord(results[i]) = p

\* the child directories of the listed directory whose first page fails
FailedSubdirs ==
    {d \in DOMAIN failAt :
        /\ IsDir(d) /\ Len(d) = Len(ListedDir) + 1 /\ IsPrefix(ListedDir, d)
        /\ failAt[d].page = 1}

\* the diagnostic entries produced for directory d
DiagsAbout(d) == {i \in 1..Len(diags) : diags[i].about = d}

\* C4: when listing the children of one directory fails during a traversal,
\* list_objects raises nothing, returns the records of the sibling entries
\* and of the contents of the sibling directories, and produces exactly one
\* diagnostic entry for the failed directory.
C4_FailedDirectoryIsolated ==
    (pc = "done" /\ call.op = "list_objects" /\ call.recursive /\ env.fails = {}) =>
        \A d \in FailedSubdirs :
            /\ ~raised
            /\ Cardinality(DiagsAbout(d)) = 1
            /\ \A s \in DOMAIN fs :
                  (Len(s) = Len(d) /\ IsPrefix(ListedDir, s) /\ s # d) =>
                      /\ HasRecord(s)
                      /\ \A c \in DOMAIN fs :
                            (Len(c) = Len(s) + 1 /\ IsPrefix(s, c)) => HasRecord(c)


\* the sources of an owner for the stored file p, as the backend holds them
AclOwner(p) == fs[p].acl
ObjectTagOwner(p) == Get(TagsAsDict(fs[p].tags), "owner")
ContainerOwner(p) == Get(fs[<<p[1]>>].meta, "owner")
AccountTags == Update(env.groups[1].tags, conn.az.cfgTags)
AccountOwner == Get(AccountTags, "owner")

\* the first owner present in the order ACL, object tag, container
\* metadata, account tag; None when none is present
PrecedenceOwner(p) ==
    Or(AclOwner(p), Or(ObjectTagOwner(p), Or(ContainerOwner(p), AccountOwner)))

\* the file records of the call that just returned
FileRecords == {i \in 1..Len(results) : results[i].type = "file"}

\* C2: in the Azure connector (file records of list_objects, and
\* get_metadata), the owner is the ACL owner A when present, else the
\* object tag owner B, else the container metadata owner C, else the account
\* tag owner D, else null.
C2_AzureOwnerPrecedence ==
    (Returns /\ call.conn = "azure" /\ env.fails = {}) =>
        \A i \in FileRecords :
            Get(fs[NodeOfRecord(results[i])].meta, "owner") = None =>
                results[i].owner = PrecedenceOwner(NodeOfRecord(results[i]))

\* the three levels of tags of the stored file p seen through connector c
LevelAccountTags(c) == IF c = "azure" THEN AccountTags ELSE EmptyMap
LevelContainerTags(c, p) ==
    IF c = "azure" THEN fs[<<p[1]>>].meta ELSE TagsAsDict(fs[<<p[1]>>].tags)
LevelObjectTags(p) == TagsAsDict(fs[p].tags)

\* C3: every file record of S3 list_objects, S3 get_metadata, Azure
\* list_objects and Azure get_metadata carries the merge of the account
\* tags, then the container / bucket tags, then the object tags: the object
\* value wins over the container value, which wins over the account value,
\* and every key of the three levels is present.
C3_TagsAreThreeLevelMerge ==
    (Returns /\ call.conn \in {"s3", "azure"} /\ env.fails = {}) =>
        \A i \in FileRecords :
            results[i].tags =
                Update(Update(LevelAccountTags(call.conn),
                              LevelContainerTags(call.conn, NodeOfRecord(results[i]))),
                       LevelObjectTags(NodeOfRecord(results[i])))

\* paths, kinds and sizes of a returned list
Shape(recs) ==
    [i \in 1..Len(recs) |->
        [path |-> recs[i].path, type |-> recs[i].type, size_bytes |-> recs[i].size_bytes]]

\* the values only the read f delivers
ValuesOf(f) ==
    CASE f = "bucket_tagging" -> {"bucketOwner", "bucket"}
      [] f = "fetch_owner" -> {"S3Owner"}
      [] f = "blob_acl" -> {"A"}
      [] f = "dir_acl" -> {"dirA"}
      [] f = "dir_tags" -> {"dir"}
      [] f = "dir_props" -> {"dirA", "dirM", "dir"}
      [] f = "acct_props" -> {"D", "acct"}
      [] f = "walk_include" -> {"B", "M", "obj"}
      [] OTHER -> {}

RefusedValues == UNION {ValuesOf(f) : f \in env.fails}

\* a list_objects call repeated while the backend refuses some reads
Repeated == pc = "done" /\ prev # NoPrev /\ call = prev.call

\* C10: a failing tag, ACL or account-property read never aborts
\* list_objects: the call returns records with the same paths, kinds and
\* sizes as when the read succeeds; owners and tags come from the remaining
\* sources, or are null / empty.
C10_ReadFailureNotFatal ==
    (Repeated /\ ~prev.raised) =>
        /\ ~raised
        /\ Shape(results) = Shape(prev.results)
        /\ \A i \in 1..Len(results) :
              /\ results[i].owner \notin RefusedValues
              /\ \A k \in DOMAIN results[i].tags : results[i].tags[k] \notin RefusedValues

\* C10 witness: the repeated call returned a directory and a file although
\* a read was refused whose value the first call had put in a record
C10_Witness ==
    /\ Repeated /\ ~raised /\ env.fails # {}
    /\ \E i \in 1..Len(results) : results[i].type = "directory" /\ results[i].size_bytes > 0
    /\ \E i \in 1..Len(prev.results) :
          /\ prev.results[i].owner \in RefusedValues
          /\ results[i].owner # prev.results[i].owner


\* TRUE when the connector that was called has no root configured
NoRootConfigured ==
    CASE call.conn = "s3" -> conn.s3.bucket = None
      [] call.conn = "azure" -> conn.az.container = None
      [] call.conn = "sharepoint" -> conn.sp.site_id = None
      [] OTHER -> FALSE

DiscoveryCall == call.op = "list_objects" /\ NoRootConfigured

\* the root a record belongs to: bucket, container or account, site
RecordRoot(rec) ==
    IF rec.path.scheme = "sharepoint" THEN rec.path.root[1] ELSE rec.path.root

\* the names under which the records of the failing roots appear: the
\* root whose listing fails (for SharePoint the site holding that drive),
\* and an account whose clients cannot be built with its containers
FailingNames ==
    UNION {IF call.conn = "sharepoint"
           THEN {env.groups[i].name : i \in {j \in 1..Len(env.groups) :
                     \E k \in 1..Len(env.groups[j].members) :
                         env.groups[j].members[k] = d[1]}}
           ELSE {d[1]} : d \in DOMAIN failAt}
    \cup UNION {{env.groups[i].name}
                \cup {env.groups[i].members[k] : k \in 1..Len(env.groups[i].members)} :
                i \in {j \in 1..Len(env.groups) : env.groups[j].bad}}

\* the records of the roots that do not fail
Others(recs) == SelectSeq(recs, LAMBDA rec : RecordRoot(rec) \notin FailingNames)

\* C5: in discovery mode, when the scan of one root raises, list_objects
\* does not raise and its result holds every record of every other root,
\* those enumerated before the failing root and those enumerated after it.
C5_RootFailureIsolated ==
    (Repeated /\ DiscoveryCall) =>
        /\ ~raised
        /\ Others(results) = Others(prev.results)

\* C5 witness: the scan of the second of three roots raised (its error was
\* printed) and the result holds records of the first and of the third
C5_Witness ==
    /\ Repeated /\ DiscoveryCall /\ ~raised
    /\ \E i \in 1..Len(diags) : diags[i].chan = "stderr" /\ diags[i].about = "r2"
    /\ \E i \in 1..Len(results) : RecordRoot(results[i]) = "r1"
    /\ \E i \in 1..Len(results) : RecordRoot(results[i]) = "r3"

\* the roots the enumeration call of discovery delivers
EnumeratedRoots ==
    CASE call.conn = "s3" ->
            IF "list_buckets" \in env.fails THEN <<>> ELSE AllRoots
      [] call.conn = "azure" ->
            IF ~conn.az.mgmt THEN <<>> ELSE Listing(env.groups, <<"accounts">>).items
      [] call.conn = "sharepoint" -> Listing(env.groups, <<"sites">>).items
      [] OTHER -> <<>>

\* C6: with no root configured, when discovery reaches zero roots (also
\* when the enumeration call fails or cannot be made), list_objects of the
\* S3, Azure and SharePoint connectors returns an empty list and raises
\* nothing.
C6_ZeroRootsEmptyList ==
    (pc = "done" /\ DiscoveryCall /\ EnumeratedRoots = <<>>) =>
        /\ ~raised
        /\ results = <<>>


\* C7: serialising a record with to_dict and parsing the result back gives
\* a record equal to the original field for field (extra_metadata as a set
\* of key-value pairs), also when optional fields are null and when keys of
\* extra_metadata are names of fixed fields.
C7_RoundTrip ==
    (pc = "done" /\ call.op = "to_dict") =>
        \A i \in 1..Len(results) : Parse(output[i]) = results[i]


\* the root the driver's configuration names for a backend
DriverRoot(b) ==
    CASE b = "s3" -> <<conn.s3.bucket>>
      [] b = "azure" -> <<conn.az.container>>
      [] b = "sharepoint" -> <<"r3">>

\* constructing or scanning the backend fails: its constructor raises, its
\* token is refused, or its root cannot be listed at all
BackendFails(b) ==
    \/ b \in drv.bad
    \/ b = "sharepoint" /\ "token" \in env.fails
    \/ DriverRoot(b) \in DOMAIN failAt /\ failAt[DriverRoot(b)].page = 1

\* nothing fails for the backend
BackendSucceeds(b) ==
    /\ b \notin drv.bad
    /\ ~(b = "sharepoint" /\ "token" \in env.fails)
    /\ DriverRoot(b) \notin DOMAIN failAt

\* the records a backend yields when a fresh connector scans it alone
Alone(b) ==
    LET r == ListObjectsOf(b, [conn EXCEPT !.az.cache = <<>>])
    IN  IF b \in drv.bad \/ r.exc THEN <<>> ELSE r.recs

\* how often a record occurs in a list
Count(recs, rec) ==
    Cardinality({i \in 1..Len(recs) : recs[i].source = rec.source /\ recs[i] = rec})

Emitted == pc = "done" /\ call.op = "fetch_all"

\* C9: fetch_all never crashes on backend failures: when constructing or
\* scanning fails for every configured backend it still emits a list, the
\* list is empty and at least one diagnostic has been printed; when only
\* some backends fail, the emitted list has every record of the backends
\* that succeeded.
C9_DriverSurvivesFailures ==
    Emitted =>
        /\ ~raised
        /\ Len(output) = Len(results)
        /\ (drv.cfg # {} /\ \A b \in drv.cfg : BackendFails(b)) =>
               (results = <<>> /\ diags # <<>>)
        /\ \A b \in drv.cfg : BackendSucceeds(b) =>
               \A i \in 1..Len(Alone(b)) : Count(results, Alone(b)[i]) >= 1

OwnerLike(tags) == {tags[k] : k \in {x \in DOMAIN tags : NormKey(x) = "owner"}}

\* the levels below the ACL from which the call that returned takes the
\* owner of the stored file p, in the order the connector consults them
OwnerLevels(p) ==
    IF call.conn = "s3" THEN <<TagsAsDict(fs[<<p[1]>>].tags)>>
    ELSE IF call.op = "list_objects"
    THEN <<TagsAsDict(fs[p].tags), fs[p].meta, AccountTags>>
    ELSE <<TagsAsDict(fs[p].tags), fs[<<p[1]>>].meta, AccountTags>>

\* the owner-like values of the first level that has any
RECURSIVE FirstOwners(_)
FirstOwners(levels) ==
    IF levels = <<>> THEN {}
    ELSE IF OwnerLike(Head(levels)) # {} THEN OwnerLike(Head(levels))
    ELSE FirstOwners(Tail(levels))

\* C11: in S3 list_objects, Azure list_objects and Azure get_metadata, at
\* every level of the owner chain the owner is the value of the entry whose
\* key, trimmed and lower-cased, is "owner": the keys "OWNER", "Owner" and
\* " owner " supply the owner as "owner" does.
C11_OwnerKeyAnySpelling ==
    (Returns /\ call.conn \in {"s3", "azure"} /\ env.fails = {}) =>
        \A i \in FileRecords :
            LET p == NodeOfRecord(results[i])
            IN  (fs[p].acl = None /\ FirstOwners(OwnerLevels(p)) # {}) =>
                    results[i].owner \in FirstOwners(OwnerLevels(p))

\* C12: no record of the Azure connector, file or directory, of
\* list_objects or get_metadata, has the owner "$superuser": an ACL owner
\* equal to the sentinel is skipped and the next source is used.
C12_NoSuperuserOwner ==
    (Returns /\ call.conn = "azure") =>
        \A i \in 1..Len(results) : results[i].owner # "$superuser"

\* the immediate children of the directory the call listed
ListedChildren == {Kids(ListedDir)[i] : i \in 1..Len(Kids(ListedDir))}

\* C13: list_objects requests the pages of a node's children until the
\* continuation cursor is exhausted: when no request fails, the result has
\* a record for every immediate child of the listed node, however many
\* pages the listing is split into.
C13_EveryPageRequested ==
    (Returns /\ NoFailure /\ call.op = "list_objects") =>
        \A c \in ListedChildren : HasRecord(c)

\* C14: called with default arguments on an explicit root, list_objects of
\* every connector recurses without depth limit: when no request fails the
\* result has a file record for every file at every depth below the root.
C14_DefaultListingIsRecursive ==
    (Returns /\ NoFailure /\ call.op = "list_objects" /\ call.recursive
        /\ call.prefix = <<>>) =>
        \A p \in FilesBelow(<<Root>>) :
            \E i \in FileRecords : NodeOfRecord(results[i]) = p

\* the stored nodes the returned records describe
RecordedNodes == {NodeOfRecord(results[i]) : i \in 1..Len(results)}

\* a call of list_objects(recursive=False) of Databricks or Azure returned
\* and no request failed
OneLevelCall ==
    /\ Returns /\ NoFailure
    /\ call.op = "list_objects" /\ ~call.recursive
    /\ call.conn \in {"databricks", "azure"}

\* every directory record has the size of its full subtree
FullSubtreeSizes ==
    \A i \in 1..Len(results) :
        results[i].type = "directory" =>
            results[i].size_bytes = SizeOfSet(FilesBelow(NodeOfRecord(results[i])))

C16_DiagnosticsOffRecordStream ==
    Emitted => \A i \in 1..Len(diags) : diags[i].chan # "stdout"

\* C17: among the records one list_objects call returns for one root (one
\* bucket, one container of a storage account, one volume, one SharePoint
\* site), no two records have the same path.
C17_PathsUniqueWithinRoot ==
    (Returns /\ call.op = "list_objects") =>
        \A i, j \in 1..Len(results) :
            i # j => results[i].path # results[j].path

\* a recursive Databricks listing returned a directory and, below it, an
\* entry of the same name
C17_Witness ==
    /\ Returns /\ call.conn = "databricks" /\ call.recursive
    /\ \E i, j \in 1..Len(results) :
          /\ Len(NodeOfRecord(results[i])) = 2
          /\ Len(NodeOfRecord(results[j])) = 3
          /\ IsPrefix(NodeOfRecord(results[i]), NodeOfRecord(results[j]))
          /\ NodeOfRecord(results[i])[2] = NodeOfRecord(results[j])[3]

\* the record Azure discovery emits for a storage account itself: its
\* source is "azure" and its path names the account alone
IsAccountRecord(rec) == rec.source = "azure" /\ rec.path.key = <<>>

FactoryCalled == pc = "done" /\ call.op = "get_connector"

\* C19 as stated: get_connector returns an S3Connector for "s3", an
\* AzureConnector for "azure", a DatabricksConnector for "databricks" and a
\* SharePointConnector for "sharepoint"; for every other source string it
\* raises ValueError without constructing any connector.
C19_FactoryReturnsConnector ==
    FactoryCalled =>
        IF call.conn \in {"s3", "azure", "databricks", "sharepoint"}
        THEN output[1].exc = None /\ output[1].returned = ClassOf(call.conn)
        ELSE output[1].exc = "ValueError" /\ output[1].constructed = {}

\* C19 as amended: for the four sources get_connector calls the constructor
\* of that class and of no other, and returns the instance unless the
\* constructor raises on the configuration, in which case that exception
\* leaves the call; for every other source string it raises ValueError
\* without constructing any connector.
C19_FactoryDispatches ==
    FactoryCalled =>
        IF call.conn \in {"s3", "azure", "databricks", "sharepoint"}
        THEN /\ output[1].constructed = {ClassOf(call.conn)}
             /\ IF output[1].exc = None THEN output[1].returned = ClassOf(call.conn)
                ELSE output[1].returned = None
        ELSE output[1].exc = "ValueError" /\ output[1].constructed = {}

\* an unsupported source was refused
C19_Witness ==
    /\ FactoryCalled /\ call.conn = "gcs"
    /\ raised /\ output[1].constructed = {}

\* a connector without catalog, schema and volume has listed a path
DbfsCall ==
    /\ pc = "done" /\ call.conn = "databricks" /\ call.op = "list_objects"
    /\ conn.dbx.volume = None

\* the entries of the DBFS directory the call names, scheme or not
DbfsEntries ==
    Kids(<<Root>> \o (IF StartsWithDbfs(call.prefix) THEN Tail(call.prefix) ELSE call.prefix))

\* the call returned one record per entry, with its path and size and with the source s
DbfsListed(s) ==
    /\ ~raised
    /\ Len(results) = Len(DbfsEntries)
    /\ \A i \in 1..Len(results) :
          /\ results[i].path = PathStr("dbfs:", "", Tail(DbfsEntries[i]), FALSE)
          /\ results[i].size_bytes = fs[DbfsEntries[i]].size
          /\ results[i].source = s

\* C20: a DatabricksConnector configured with host and token only, asked to
\* list_objects with a prefix that does not start with "dbfs:", lists that
\* DBFS path and returns exactly one record per DBFS entry, with the entry's
\* path and file size and with source "databricks" (no listing fails).
C20_PlainPrefixListsDbfs ==
    (DbfsCall /\ ~StartsWithDbfs(call.prefix) /\ failAt = EmptyMap)
        => DbfsListed("databricks")

\* the same call with the dbfs: scheme in the prefix: one record per entry,
\* with source "databricks_dbfs"
C20_SchemePrefixListsDbfs ==
    (DbfsCall /\ StartsWithDbfs(call.prefix) /\ failAt = EmptyMap)
        => DbfsListed("databricks_dbfs")

\* a DBFS directory with an entry was listed through a dbfs: prefix
C20_SchemeWitness ==
    DbfsCall /\ StartsWithDbfs(call.prefix) /\ failAt = EmptyMap /\ Len(results) > 0

\* the objects the backend lists to the call: the files among the entries of
\* the listed directory that it returns to the requests made (S3 answers the
\* one request with the first page, Azure serves every page)
BackendLists ==
    LET kids == Kids(ListedDir)
        served == IF call.conn = "s3" THEN SubSeq(kids, 1, Min(Len(kids), PageSize))
                  ELSE kids
    IN  {served[i] : i \in {k \in 1..Len(served) : IsFile(served[k])}}

SizeFailSubdirs ==
    {d \in DOMAIN failAt :
        IsDir(d) /\ Len(d) = Len(ListedDir) + 1 /\ IsPrefix(ListedDir, d)}

\* C22: if listing a directory's contents fails while its aggregate size is
\* being computed, list_objects of every connector still returns normally:
\* the directory record is emitted with size 0 or with the partial sum
\* collected before the failure, and the records of the directory's
\* siblings, files included, are still in the result.
C22_SizeFailureNotFatal ==
    (pc = "done" /\ call.op = "list_objects" /\ env.fails = {}) =>
        \A d \in SizeFailSubdirs :
            /\ ~raised
            /\ \E i \in 1..Len(results) :
                  /\ NodeOfRecord(results[i]) = d /\ results[i].type = "directory"
                  /\ results[i].size_bytes <= SizeOfSet(FilesBelow(d))
            /\ \A s \in ListedChildren : HasRecord(s)

\* Azure list_objects in discovery mode has ended
AzDiscovered == pc = "done" /\ call.conn = "azure" /\ DiscoveryCall

\* C25: after Azure list_objects in discovery mode returns, the connector's
\* account context is what it was before the call: config
\* ["azure_account_name"] has its original value, the data-plane clients
\* address the original account and the account metadata cache holds no
\* entry of a discovered account, also when the scan of some discovered
\* account raised an exception.
C25_DiscoveryRestoresContext ==
    (AzDiscovered /\ ~raised) =>
        /\ conn.az.account_name = conn.az_built.account_name
        /\ conn.az.client = conn.az_built.client
        /\ (prev = NoPrev => conn.az.cache = <<>>)

\* the storage account holding a container
AccountOf(container) ==
    CHOOSE g \in {env.groups[i] : i \in 1..Len(env.groups)} :
        \E j \in 1..Len(g.members) : g.members[j] = container

\* the file and directory records of a discovery call (not the account records)
EntryRecords == {i \in 1..Len(results) : results[i].type \in {"file", "directory"}}

\* the account-level tags get_account_metadata resolves for an account under
\* the connector's configuration, starting without a cached context
ResolvedTags(acct) ==
    AzAccountMetadata([conn.az_built EXCEPT !.account_name = acct.name,
                                            !.client = acct.name]).meta.tags

\* the number of warnings printed about n by failing reads of the account context
ContextWarnings(what, n) ==
    Cardinality({i \in 1..Len(diags) : diags[i].what = what /\ diags[i].about = n})

\* C23, first part: during an Azure scan the account-level context is fetched
\* from the management plane at most once per storage account and reused
\* for every container and record of that account.  Every fetch that fails
\* prints one warning, and the context is cached whether or not the fetch
\* succeeds: when the reads fail, there is at most one warning per account.
C23_ContextFetchedOncePerAccount ==
    AzDiscovered =>
        \A i \in 1..Len(env.groups) :
            /\ ContextWarnings("Warning: Failed to fetch account tags/props",
                               env.groups[i].name) <= 1
            /\ ContextWarnings("Warning: Data Plane access failed",
                               env.groups[i].name) <= 1

\* C23: ... and in discovery mode the cached context is never carried over
\* from one account to the next: with no context cached before the call,
\* every file and directory record of a container carries the account-level
\* tags resolved for the account of that container.
C23_ContextNotCarriedOver ==
    (AzDiscovered /\ prev = NoPrev) =>
        /\ C23_ContextFetchedOncePerAccount
        /\ \A i \in EntryRecords :
              results[i].tags = ResolvedTags(AccountOf(RecordRoot(results[i])))

\* C26: in Azure discovery mode every file and directory record emitted for
\* a container of storage account X carries the account-level tags of X and
\* an account-level owner fallback taken from X (no entry has an owner of
\* its own here), never those of another account or of the account context
\* that was active or cached before discovery started.
C26_RecordsCarryOwnAccountContext ==
    AzDiscovered =>
        \A i \in EntryRecords :
            LET X == AccountOf(RecordRoot(results[i]))
            IN  /\ \A k \in DOMAIN X.tags :
                      k \in DOMAIN results[i].tags /\ results[i].tags[k] = X.tags[k]
                /\ results[i].type = "file" => results[i].owner = X.tags["owner"]

\* the volume a Databricks list_objects call lists: the override, else the
\* configured volume
ListedVolume == Or(call.volume, conn.dbx.volume)

\* C27: every record returned by DatabricksConnector.list_objects for a
\* volume has as owner the configured databricks_owner ("cfg") or, when none
\* is configured, the owner of the volume being listed, for any sequence of
\* list_objects calls on one connector, including calls that select
\* different volumes through the overrides.
C27_OwnerOfListedVolume ==
    (pc = "done" /\ call.conn = "databricks" /\ call.op = "list_objects" /\ ~raised) =>
        \A i \in 1..Len(results) :
            results[i].owner = (IF conn.dbx.owner = "cfg" THEN "cfg"
                                ELSE fs[<<ListedVolume>>].owner)

\* the site the SharePoint connector was configured with: the site id, else
\* the site the URL addresses; None when neither is configured or the URL
\* addresses no site
ConfiguredSite ==
    LET cfg == conn.sp.config
    IN  IF cfg.sharepoint_site_id # None THEN cfg.sharepoint_site_id
        ELSE IF cfg.sharepoint_site_url \in DOMAIN SiteUrls
        THEN SiteUrls[cfg.sharepoint_site_url]
        ELSE None

SiteConfigured ==
    conn.sp.config.sharepoint_site_id # None \/ conn.sp.config.sharepoint_site_url # None

\* C28: a SharePointConnector configured with a site (sharepoint_site_id or
\* sharepoint_site_url) only ever returns, from list_objects without a site
\* override, records of that site, also when resolving the site URL to a
\* site id fails: then no record of any other site is returned.
C28_OnlyConfiguredSite ==
    (pc = "done" /\ call.conn = "sharepoint" /\ call.op = "list_objects"
        /\ SiteConfigured) =>
        \A i \in 1..Len(results) : RecordRoot(results[i]) = ConfiguredSite

\* the entries of the directory d that the listing gives at or after entry p
AtOrAfter(p) ==
    LET d == SubSeq(p, 1, Len(p) - 1)
        at == CHOOSE i \in 1..Len(Kids(d)) : Kids(d)[i] = p
    IN  {Kids(d)[i] : i \in at..Len(Kids(d))}

\* C29: a Databricks volume entry (file or directory) whose modification
\* timestamp is absent or null is emitted as a record with last_modified =
\* null, and every entry listed after it in the same directory is still
\* emitted.
C29_MissingTimestampIsNull ==
    (pc = "done" /\ call.conn = "databricks" /\ call.op = "list_objects") =>
        \A p \in ListedChildren :
            fs[p].mtime \in {"absent", None} =>
                /\ \E i \in 1..Len(results) :
                      NodeOfRecord(results[i]) = p /\ results[i].last_modified = None
                /\ \A q \in AtOrAfter(p) : HasRecord(q)

\* TRUE when the configuration of the call has a value for key k
Configured(k) == k \in DOMAIN call.config /\ call.config[k] \notin {None, ""}

\* C30: constructing an AzureConnector raises ValueError exactly when the
\* config has none of connection_string, azure_account_name and
\* azure_subscription_id; for every config with at least one of the three,
\* whatever the other keys, construction completes without raising.
C30_AzureConstructorRaisesOnlyWithoutAccount ==
    (FactoryCalled /\ call.conn = "azure") =>
        IF Configured("connection_string") \/ Configured("azure_account_name")
           \/ Configured("azure_subscription_id")
        THEN output[1].exc = None /\ output[1].returned = "AzureConnector"
        ELSE output[1].exc = "ValueError"

\* C24: for every finite namespace tree, every finite chain of listing
\* pages and every pattern of failing backend calls, list_objects eventually
\* returns (or raises) and the aggregation driver eventually emits its
\* output; no traversal loop runs forever.
C24_WalkAndDriverTerminate ==
    /\ (pc = "running" /\ drv.pos["sharepoint"] = "walking")
          ~> (pc = "running" /\ drv.pos["sharepoint"] \in {"listed", "failed"})
    /\ (pc = "running") ~> (pc = "done" /\ call.op = "fetch_all")

\* what the loops collect step by step is what list_objects returns
C24_StepsGiveListObjects ==
    (pc = "running" /\ drv.pos["sharepoint"] \in {"listed", "failed"}) =>
        /\ (drv.pos["sharepoint"] = "failed") = SpListObjects(conn.sp, None, None).exc
        /\ drv.pos["sharepoint"] = "listed" =>
              drv.files["sharepoint"] = SpListObjects(conn.sp, None, None).recs

\* the driver has emitted after a walk that sized a folder holding a folder
\* and met a failing page
C24_Witness ==
    /\ pc = "done" /\ call.op = "fetch_all"
    /\ failAt # EmptyMap
    /\ \E p \in DOMAIN fs : Len(p) = 3 /\ IsDir(p)
    /\ Len(results) > 0

====
